---- MODULE Spec2Model ----
(***************************************************************************)
(* Model of the connection / object-protocol layer of                      *)
(* playwright/_impl/_connection.py: the remote object graph                *)
(* (ChannelOwner), the request/response multiplexer (Connection) and the   *)
(* per-object call facade (Channel).                                       *)
(***************************************************************************)
EXTENDS Integers, Sequences, FiniteSets, TLC

(* ------------------------------ bounds --------------------------------- *)
\* number of remote objects the server creates besides the root
MaxObjects == 2
\* number of calls issued on the connection
MaxCalls == 2
\* number of listener registrations
MaxListeners == 2
\* nesting depth of the lists and records of a parameter payload
MaxDepth == 2
\* frames of a call stack handed to _extract_metadata_from_stack
MaxFrames == 4
\* wrap_api_call activations of one task
MaxWraps == 3
MaxTimes == 3

\* the tasks whose contexts hold a value of the zone
Contexts == {"t1", "t2"}

(* ------------------------------ payloads ------------------------------- *)
\* Python values that travel in params, results and events.
None == [t |-> "none"]
Str(s) == [t |-> "str", s |-> s]
PathV(p) == [t |-> "path", p |-> p]
Chan(o) == [t |-> "chan", o |-> o]
List(l) == [t |-> "list", l |-> l]
Dict(d) == [t |-> "dict", d |-> d]
EmptyDict == Dict(<<>>)

(* ------------------------------ identities ----------------------------- *)
GuidNames == <<"a", "b", "c", "d", "e">>
Guids == {GuidNames[i] : i \in 1..MaxObjects}
RootGuid == ""
\* A ChannelOwner instance: the guid it was constructed with and the number
\* of the construction under that guid (Python object identity).
Root == <<RootGuid, 0>>
NoParent == <<RootGuid, -1>>
NoExc == "none"
KnownTypes == {"Page", "Browser", "Playwright"}
Types == {"Page", "Mystery"}

VARIABLES
    heap,            \* every ChannelOwner ever constructed: its fields
    _objects,        \* Connection._objects: guid -> ChannelOwner
    _last_id,        \* Connection._last_id
    _callbacks,      \* Connection._callbacks: id -> ProtocolCallback
    calls,           \* every ProtocolCallback ever constructed, with its caller
    sent,            \* the requests handed to Transport.send, in order
    _error,          \* Connection._error
    on_error_future, \* Transport.on_error_future
    listeners,       \* Channel listeners: <<object, event>> -> handlers in order
    _is_sync,        \* Connection._is_sync
    lastMsg,         \* the message handed to the latest dispatch call
    raised,          \* the exception that left the latest dispatch call
    removed,         \* the objects the latest dispatch call took out of the index
    invoked,         \* the listener invocations made by the latest dispatch call
    playwright_future, \* Connection.playwright_future
    timeout_future,  \* the deadline task of BrowserType.connect
    connect_task,    \* the caller of BrowserType.connect
    stop_task,       \* the caller of Connection.stop_async
    wire,            \* the messages the server has written, in order
    fibers,          \* the listeners that were started and blocked on a call
    _api_zone,       \* Connection._api_zone: its value in each task's context
    wraps,           \* the wrap_api_call activations of each task, oldest first
    metas,           \* the metadata of the requests sent from inside a wrap
    child_ws,        \* the connection BrowserType.connect opens: how far it is tracked
    disposal,        \* the objects the latest lifecycle dispatch took out of the
                     \* index, in the order they left it
    transport,       \* the transport: open, asked to stop, stopped
    _waiting_for_object, \* Connection._waiting_for_object: guid -> callback
    known,           \* the callbacks registered by known name before their
                     \* object existed, and the invocations made
    enter_task,      \* the caller of PlaywrightContextManager.__enter__
    shadowed, \* the stored error that the latest listener fault replaced
    route_handler  \* a RouteHandler: its fields and the caller of its handle

graphVars == <<heap, _objects>>
callVars == <<_last_id, _callbacks, calls, sent, _error, on_error_future>>
eventVars == <<listeners, _is_sync>>
traceVars == <<lastMsg, raised, removed, invoked>>
connectVars == <<playwright_future, timeout_future, connect_task>>
zoneVars == <<_api_zone, wraps, metas>>
auxVars == <<child_ws, disposal, transport, _waiting_for_object, known, enter_task, shadowed, route_handler>>
vars == <<heap, _objects, _last_id, _callbacks, calls, sent, _error, on_error_future,
          listeners, _is_sync, lastMsg, raised, removed, invoked,
          playwright_future, timeout_future, connect_task, stop_task, wire, fibers,
          _api_zone, wraps, metas, child_ws, disposal,
          transport, _waiting_for_object, known, enter_task,
          shadowed,
          route_handler>>

(* --------------------------- object factory ---------------------------- *)
\* a factory without the fallback of line 94
create_remote_object_known_only(type) ==
    IF type \in KnownTypes THEN type ELSE "None"

create_remote_object(type) ==
    IF type \in KnownTypes THEN type ELSE "DummyObject"

(* ------------------------------ codec ---------------------------------- *)
Range(f) == {f[x] : x \in DOMAIN f}
Remove(f, k) == [x \in (DOMAIN f) \ {k} |-> f[x]]
Put(f, k, v) == [x \in (DOMAIN f) \cup {k} |-> IF x = k THEN v ELSE f[x]]

\* an encoder without the Path branch of lines 358-359
RECURSIVE _replace_channels_keeps_paths(_)
_replace_channels_keeps_paths(payload) ==
    IF payload.t = "none" THEN payload
    ELSE IF payload.t = "list"
        THEN List([i \in DOMAIN payload.l |-> _replace_channels_keeps_paths(payload.l[i])])
    ELSE IF payload.t = "chan" THEN Dict("guid" :> Str(payload.o[1]))
    ELSE IF payload.t = "dict"
        THEN Dict([k \in DOMAIN payload.d |-> _replace_channels_keeps_paths(payload.d[k])])
    ELSE payload

RECURSIVE _replace_channels_with_guids(_)
_replace_channels_with_guids(payload) ==
    IF payload.t = "none" THEN payload
    ELSE IF payload.t = "path" THEN Str(payload.p)
    ELSE IF payload.t = "list"
        THEN List([i \in DOMAIN payload.l |-> _replace_channels_with_guids(payload.l[i])])
    ELSE IF payload.t = "chan" THEN Dict("guid" :> Str(payload.o[1]))
    ELSE IF payload.t = "dict"
        THEN Dict([k \in DOMAIN payload.d |-> _replace_channels_with_guids(payload.d[k])])
    ELSE payload

\* `x in self._objects` with a list or a record for x: TypeError (unhashable)
Unhashable == [t |-> "TypeError"]
Hashable(v) == v.t \notin {"list", "dict"}

\* a decoder that only looks at the outermost record
_replace_guids_top_only(objs, payload) ==
    IF /\ payload.t = "dict"
       /\ "guid" \in DOMAIN payload.d
       /\ payload.d["guid"].t = "str"
       /\ payload.d["guid"].s \in DOMAIN objs
    THEN Chan(objs[payload.d["guid"].s])
    ELSE payload

\* a decoder that leaves the fields of a record it cannot resolve as they are
RECURSIVE _replace_guids_shallow(_, _)
_replace_guids_shallow(objs, payload) ==
    IF payload.t = "none" THEN payload
    ELSE IF payload.t = "list"
        THEN LET l == [i \in DOMAIN payload.l |-> _replace_guids_shallow(objs, payload.l[i])]
             IN IF Unhashable \in Range(l) THEN Unhashable ELSE List(l)
    ELSE IF payload.t = "dict"
        THEN LET guid == IF "guid" \in DOMAIN payload.d THEN payload.d["guid"] ELSE None
             IN IF ~Hashable(guid) THEN Unhashable
                ELSE IF guid.t = "str" /\ guid.s \in DOMAIN objs
                THEN Chan(objs[guid.s])
                ELSE IF guid.t = "str" THEN payload
                ELSE LET d == [k \in DOMAIN payload.d |->
                                  _replace_guids_shallow(objs, payload.d[k])]
                     IN IF Unhashable \in Range(d) THEN Unhashable ELSE Dict(d)
    ELSE payload

\* objs is Connection._objects at the time of the call; the value is the
\* decoded payload, or Unhashable when line 377 raises
RECURSIVE _replace_guids_with_channels(_, _)
_replace_guids_with_channels(objs, payload) ==
    IF payload.t = "none" THEN payload
    ELSE IF payload.t = "list"
        THEN LET l == [i \in DOMAIN payload.l |-> _replace_guids_with_channels(objs, payload.l[i])]
             IN IF Unhashable \in Range(l) THEN Unhashable ELSE List(l)
    ELSE IF payload.t = "dict"
        THEN LET guid == IF "guid" \in DOMAIN payload.d THEN payload.d["guid"] ELSE None
             IN IF ~Hashable(guid) THEN Unhashable
                ELSE IF guid.t = "str" /\ guid.s \in DOMAIN objs
                THEN Chan(objs[guid.s])
                ELSE LET d == [k \in DOMAIN payload.d |->
                                  _replace_guids_with_channels(objs, payload.d[k])]
                     IN IF Unhashable \in Range(d) THEN Unhashable ELSE Dict(d)
    ELSE payload

(* --------------------------- ChannelOwner ------------------------------ *)
\* A graph state threaded through the methods: the heap, the flat index, the
\* exception raised so far (the mutations made before a raise persist) and
\* the objects taken out of the index so far, in the order they left it.
G(h, o, e) ==
    [heap |-> h, objs |-> o, exc |-> e, log |-> <<>>,
     waiting |-> _waiting_for_object, called |-> <<>>]

Gen(h, guid) == Cardinality({o \in DOMAIN h : o[1] = guid})

\* a constructor that forgets the parent's child set (lines 118-119)
ChannelOwner__init__unlinked(S, parent, type, guid, initializer) ==
    LET self == <<guid, Gen(S.heap, guid) + 1>>
        fields == [type |-> type, cls |-> create_remote_object(type), guid |-> guid,
                   parent |-> parent, objects |-> <<>>, initializer |-> initializer]
        h1 == [o \in (DOMAIN S.heap) \cup {self} |-> IF o = self THEN fields ELSE S.heap[o]]
    IN G(h1, Put(S.objs, guid, self), S.exc)

\* ChannelOwner.__init__ run by the object factory
ChannelOwner__init__(S, parent, type, guid, initializer) ==
    LET self == <<guid, Gen(S.heap, guid) + 1>>
        fields == [type |-> type, cls |-> create_remote_object(type), guid |-> guid,
                   parent |-> parent, objects |-> <<>>, initializer |-> initializer]
        h1 == [o \in (DOMAIN S.heap) \cup {self} |-> IF o = self THEN fields ELSE S.heap[o]]
        h2 == IF parent # NoParent
              THEN [h1 EXCEPT ![parent].objects = Put(@, guid, self)]
              ELSE h1
    IN G(h2, Put(S.objs, guid, self), S.exc)

\* the children in the order the loop of _dispose visits them
RECURSIVE ValuesList(_)
ValuesList(f) ==
    IF DOMAIN f = {} THEN <<>>
    ELSE LET k == CHOOSE x \in DOMAIN f : TRUE
         IN <<f[k]>> \o ValuesList(Remove(f, k))

\* a _dispose that forgets the cascade into the children
_dispose_shallow(S, self) ==
    LET p == S.heap[self].parent
        g == S.heap[self].guid
        S1 == IF p = NoParent THEN S
              ELSE [S EXCEPT !.heap[p].objects = Remove(@, g)]
    IN [S1 EXCEPT !.objs = Remove(@, g), !.heap[self].objects = <<>>]

\* a _dispose that goes through the children before it takes the object
\* itself out of its parent's child set and of the index
RECURSIVE _dispose_children_first(_, _)
_dispose_children_first(S, self) ==
    LET RECURSIVE All(_, _)
        All(T, children) ==
            IF children = <<>> THEN T
            ELSE All(_dispose_children_first(T, Head(children)), Tail(children))
        p == S.heap[self].parent
        g == S.heap[self].guid
        S1 == All(S, ValuesList(S.heap[self].objects))
        S2 == IF p = NoParent THEN S1
              ELSE [S1 EXCEPT !.heap[p].objects = Remove(@, g)]
    IN [S2 EXCEPT !.objs = Remove(@, g), !.log = Append(@, self),
                  !.heap[self].objects = <<>>]

RECURSIVE _dispose(_, _)
RECURSIVE DisposeAll(_, _)
_dispose(S, self) ==
    LET p == S.heap[self].parent
        g == S.heap[self].guid
        S1 == IF p = NoParent THEN S
              ELSE IF g \in DOMAIN S.heap[p].objects
                   THEN [S EXCEPT !.heap[p].objects = Remove(@, g)]
                   ELSE [S EXCEPT !.exc = "KeyError"]
        S2 == IF S1.exc # NoExc THEN S1
              ELSE IF g \in DOMAIN S1.objs
                   THEN [S1 EXCEPT !.objs = Remove(@, g), !.log = Append(@, self)]
                   ELSE [S1 EXCEPT !.exc = "KeyError"]
        S3 == IF S2.exc # NoExc THEN S2
              ELSE DisposeAll(S2, ValuesList(S2.heap[self].objects))
    IN IF S3.exc # NoExc THEN S3
       ELSE [S3 EXCEPT !.heap[self].objects = <<>>]

DisposeAll(S, children) ==
    IF children = <<>> \/ S.exc # NoExc THEN S
    ELSE DisposeAll(_dispose(S, Head(children)), Tail(children))

\* an adoption that leaves the child in its old parent's child set
_adopt_keeps_old(S, self, child) ==
    LET old == S.heap[child].parent
        g == S.heap[child].guid
    IN IF old = NoParent THEN [S EXCEPT !.exc = "AttributeError"]
       ELSE LET h2 == [S.heap EXCEPT ![self].objects = Put(@, g, child)]
                h3 == [h2 EXCEPT ![child].parent = self]
            IN G(h3, S.objs, S.exc)

_adopt(S, self, child) ==
    LET old == S.heap[child].parent
        g == S.heap[child].guid
    IN IF old = NoParent THEN [S EXCEPT !.exc = "AttributeError"]
       ELSE IF g \notin DOMAIN S.heap[old].objects THEN [S EXCEPT !.exc = "KeyError"]
       ELSE LET h1 == [S.heap EXCEPT ![old].objects = Remove(@, g)]
                h2 == [h1 EXCEPT ![self].objects = Put(@, g, child)]
                h3 == [h2 EXCEPT ![child].parent = self]
            IN G(h3, S.objs, S.exc)

(* ----------------------------- Connection ------------------------------ *)
\* a _create_remote_object that calls the waiting callback and leaves it
\* registered
_create_remote_object_keeps(S, parent, type, guid, initializer) ==
    LET init == _replace_guids_with_channels(S.objs, initializer)
        R == ChannelOwner__init__(S, parent, type, guid, init)
    IN IF init = Unhashable THEN [S EXCEPT !.exc = "TypeError"]
       ELSE IF guid \in DOMAIN S.waiting
       THEN [R EXCEPT !.waiting = S.waiting,
                      !.called = Append(S.called, <<S.waiting[guid], R.objs[guid]>>)]
       ELSE [R EXCEPT !.waiting = S.waiting, !.called = S.called]

\* lines 343-350: the initializer is decoded, the factory builds the object,
\* the callback waiting for the guid is popped and called with the object
_create_remote_object(S, parent, type, guid, initializer) ==
    LET init == _replace_guids_with_channels(S.objs, initializer)
        R == ChannelOwner__init__(S, parent, type, guid, init)
    IN IF init = Unhashable THEN [S EXCEPT !.exc = "TypeError"]
       ELSE IF guid \in DOMAIN S.waiting
       THEN [R EXCEPT !.waiting = Remove(S.waiting, guid),
                      !.called = Append(S.called, <<S.waiting[guid], R.objs[guid]>>)]
       ELSE [R EXCEPT !.waiting = S.waiting, !.called = S.called]

\* RootChannelOwner(connection): guid "", no parent, registered in the index
RootFields == [type |-> "Root", cls |-> "Root", guid |-> RootGuid, parent |-> NoParent,
               objects |-> <<>>, initializer |-> EmptyDict]

\* exceptions and futures
NoError == [cls |-> "None"]
Pending == [st |-> "pending"]
Cancelled == [st |-> "cancelled"]
Result(v) == [st |-> "result", v |-> v]
Failed(e) == [st |-> "exception", e |-> e]
NotStarted == [st |-> "none"]
Idle == [st |-> "idle"]

\* the connection BrowserType.connect opens: in _child_ws_connections of the
\* issuing connection or not, its transport disposed or not, the close handler
\* registered or not, its cleanup run or not
Untracked ==
    [tracked |-> FALSE, disposed |-> FALSE, on_close |-> FALSE, cleaned |-> FALSE,
     closed |-> FALSE, owner_cleaned |-> FALSE]

\* Connection.__init__
Init ==
    /\ heap = <<>>
    /\ _objects = <<>>
    /\ _last_id = 0
    /\ _callbacks = <<>>
    /\ calls = <<>>
    /\ sent = <<>>
    /\ _error = NoError
    /\ on_error_future = Pending
    /\ listeners = <<>>
    /\ _is_sync = FALSE
    /\ lastMsg = [id |-> 0]
    /\ raised = NoExc
    /\ removed = {}
    /\ invoked = <<>>
    /\ playwright_future = Pending
    /\ timeout_future = NotStarted
    /\ connect_task = Idle
    /\ stop_task = Idle
    /\ wire = <<>>
    /\ fibers = <<>>
    /\ _api_zone = [c \in Contexts |-> None]
    /\ wraps = [c \in Contexts |-> <<>>]
    /\ metas = <<>>
    /\ child_ws = Untracked
    /\ disposal = <<>>
    /\ transport = "open"
    /\ _waiting_for_object = <<>>
    /\ known = [registered |-> {}, called |-> <<>>]
    /\ enter_task = Idle
    /\ shadowed = NoError
    /\ route_handler = NotStarted

Running == Root \in DOMAIN heap

\* Connection.run: the root object is constructed, the transport starts
run ==
    /\ ~Running
    /\ heap' = (Root :> RootFields)
    /\ _objects' = (RootGuid :> Root)
    /\ UNCHANGED <<auxVars, zoneVars, fibers, wire, stop_task, callVars, eventVars, traceVars, connectVars>>

\* Connection.run_as_sync
run_as_sync ==
    /\ ~Running
    /\ _is_sync' = TRUE
    /\ heap' = (Root :> RootFields)
    /\ _objects' = (RootGuid :> Root)
    /\ UNCHANGED <<auxVars, zoneVars, fibers, wire, stop_task, callVars, listeners, traceVars, connectVars>>

(* ------------------------- inbound messages ---------------------------- *)
AllGuids == Guids \cup {RootGuid}
CreateMsg(parent, type, guid) ==
    [guid |-> parent, method |-> "__create__",
     params |-> [type |-> type, guid |-> guid, initializer |-> EmptyDict]]
AdoptMsg(parent, child) == [guid |-> parent, method |-> "__adopt__", params |-> [guid |-> child]]
DisposeMsg(guid) == [guid |-> guid, method |-> "__dispose__", params |-> None]

\* guids the server has used so far
Created == {o[1] : o \in DOMAIN heap}

Here == G(heap, _objects, NoExc)

\* SyncPlaywright(impl): the wrapper of an implementation object
SyncPlaywright(impl) == [_impl_obj |-> impl]
\* callback_wrapper of __enter__ (lines 66-68): the wrapper is stored and the
\* caller of __enter__ is switched to; it returns what was stored (lines 72-75)
callback_wrapper(called) ==
    LET i == CHOOSE j \in DOMAIN called : called[j][1] = "callback_wrapper"
    IN SyncPlaywright(called[i][2])

\* what a lifecycle notification leaves behind
Outcome(S, msg) ==
    /\ heap' = S.heap
    /\ _objects' = S.objs
    /\ raised' = S.exc
    /\ lastMsg' = msg
    /\ removed' = Range(_objects) \ Range(S.objs)
    /\ invoked' = <<>>
    /\ disposal' = S.log
    /\ _waiting_for_object' = S.waiting
    /\ known' = [known EXCEPT !.called = @ \o S.called]
    /\ enter_task' = IF \E i \in DOMAIN S.called : S.called[i][1] = "callback_wrapper"
                     THEN [st |-> "returned", v |-> callback_wrapper(S.called)]
                     ELSE enter_task
    /\ UNCHANGED <<route_handler, shadowed, transport, child_ws, zoneVars, fibers, wire, stop_task, callVars, eventVars, connectVars>>

\* lines 303-305: the addressed object must be in the index
CannotFind == "Exception: Cannot find object"
UnknownChild == "Exception: Unknown new child"

\* a create branch that builds the object under the root when the parent
\* is not in the index
dispatch_create_orphan(msg) ==
    /\ msg.method = "__create__"
    /\ Outcome(_create_remote_object(Here,
                   IF msg.guid \in DOMAIN _objects THEN _objects[msg.guid] ELSE Root,
                   msg.params.type, msg.params.guid, msg.params.initializer), msg)

\* lines 292-301: the parent is looked up with _objects[guid]
dispatch_create(msg) ==
    /\ msg.method = "__create__"
    /\ IF msg.guid \notin DOMAIN _objects
       THEN Outcome([Here EXCEPT !.exc = "KeyError"], msg)
       ELSE Outcome(_create_remote_object(Here, _objects[msg.guid], msg.params.type,
                                          msg.params.guid, msg.params.initializer), msg)

\* an adopt branch that drops the notification when an id is not in the index
dispatch_adopt_lenient(msg) ==
    /\ msg.method = "__adopt__"
    /\ IF msg.guid \notin DOMAIN _objects \/ msg.params.guid \notin DOMAIN _objects
       THEN Outcome(Here, msg)
       ELSE Outcome(_adopt(Here, _objects[msg.guid], _objects[msg.params.guid]), msg)

dispatch_adopt(msg) ==
    /\ msg.method = "__adopt__"
    /\ IF msg.guid \notin DOMAIN _objects
       THEN Outcome([Here EXCEPT !.exc = CannotFind], msg)
       ELSE IF msg.params.guid \notin DOMAIN _objects
       THEN Outcome([Here EXCEPT !.exc = UnknownChild], msg)
       ELSE Outcome(_adopt(Here, _objects[msg.guid], _objects[msg.params.guid]), msg)

\* a dispose branch that ignores an absent id
dispatch_dispose_silent(msg) ==
    /\ msg.method = "__dispose__"
    /\ IF msg.guid \notin DOMAIN _objects
       THEN Outcome(Here, msg)
       ELSE Outcome(_dispose(Here, _objects[msg.guid]), msg)

dispatch_dispose(msg) ==
    /\ msg.method = "__dispose__"
    /\ IF msg.guid \notin DOMAIN _objects
       THEN Outcome([Here EXCEPT !.exc = CannotFind], msg)
       ELSE Outcome(_dispose(Here, _objects[msg.guid]), msg)

\* Only the first identifier may name an object of an unrecognised type.
TypesFor(g) == IF g = GuidNames[1] THEN Types ELSE KnownTypes
CreateMsgs == {CreateMsg(p, ty, g) : p \in AllGuids, ty \in Types, g \in Guids}
\* The server never reuses an identifier (spec section 3).
Fresh(msg) ==
    /\ msg.params.guid \notin Created
    /\ msg.params.type \in TypesFor(msg.params.guid)
AdoptMsgs == {AdoptMsg(p, c) : p \in AllGuids, c \in AllGuids}
DisposeMsgs == {DisposeMsg(g) : g \in AllGuids}

\* the object graph under every lifecycle notification
NextGraph ==
    \/ run
    \/ \E msg \in CreateMsgs : Running /\ Fresh(msg) /\ dispatch_create(msg)
    \/ \E msg \in AdoptMsgs : Running /\ dispatch_adopt(msg)
    \/ \E msg \in DisposeMsgs : Running /\ dispatch_dispose(msg)

SpecGraph == Init /\ [][NextGraph]_vars

PageCreateMsgs == {CreateMsg(p, "Page", g) : p \in AllGuids, g \in Guids}

\* lifecycle notifications of a server that names a new object with an
\* identifier it has used before: dispatch has no check against it
\* (MaxObjects constructions besides the root)
NextReuse ==
    \/ run
    \/ \E msg \in PageCreateMsgs :
          Running /\ Cardinality(DOMAIN heap) <= MaxObjects /\ dispatch_create(msg)
    \/ \E msg \in AdoptMsgs : Running /\ dispatch_adopt(msg)
    \/ \E msg \in DisposeMsgs : Running /\ dispatch_dispose(msg)

SpecReuse == Init /\ [][NextReuse]_vars

(* ------------------------------ calls ---------------------------------- *)
\* line 254 with the id no longer advanced
NewIdStuck(last_id) == IF last_id = 0 THEN 1 ELSE last_id

\* lines 254-255
NewId(last_id) == last_id + 1

\* the caller of a call: the task that runs Channel.send
Awaiting == [st |-> "awaiting"]
RunningOn == [st |-> "running"]
Returned(v) == [st |-> "returned", v |-> v]
Raised(e) == [st |-> "raised", e |-> e]
\* the task ended cancelled; cb says whether its done-callback is still due
TaskCancelled(cb) == [st |-> "cancelled", cb |-> cb]

Request(id, guid, method, params) ==
    [id |-> id, guid |-> guid, method |-> method, params |-> params]

\* Connection._send_message_to_server followed by what the caller does next;
\* the metadata of the message is the caller's to state
SendFrom(kind, o, method, params, task, err) ==
    LET id == NewId(_last_id)
        n == Len(calls) + 1
    IN /\ _last_id' = id
       /\ _callbacks' = Put(_callbacks, id, n)
       /\ sent' = Append(sent, Request(id, heap[o].guid, method,
                                       _replace_channels_with_guids(params)))
       /\ calls' = Append(calls, [id |-> id, kind |-> kind, params |-> params,
                                  future |-> Pending, task |-> task])
       /\ _error' = err
       /\ UNCHANGED <<auxVars, fibers, wire, stop_task, graphVars, on_error_future, eventVars, traceVars, connectVars>>

\* a request whose metadata is left out of the account
SendMessage(kind, o, method, params, task, err) ==
    SendFrom(kind, o, method, params, task, err) /\ UNCHANGED zoneVars

\* an inner_send that raises the stored error without clearing it
inner_send_keeps_error(kind, o, method, params) ==
    IF _error # NoError
    THEN SendMessage(kind, o, method, params, Raised(_error), _error)
    ELSE SendMessage(kind, o, method, params, Awaiting, _error)

\* Channel.inner_send up to its await (lines 62-68)
inner_send(kind, o, method, params) ==
    IF _error # NoError
    THEN SendMessage(kind, o, method, params, Raised(_error), NoError)
    ELSE SendMessage(kind, o, method, params, Awaiting, _error)

send(o, method, params) == inner_send("send", o, method, params)

send_return_as_dict(o, method, params) ==
    inner_send("send_return_as_dict", o, method, params)

send_no_reply(o, method, params) ==
    SendMessage("send_no_reply", o, method, params, RunningOn, _error)

\* the task of call n ends cancelled; its done-callback cb is scheduled
CancelTask(n) ==
    /\ calls[n].task.st \in {"awaiting", "running"}
    /\ calls' = [calls EXCEPT ![n].task = TaskCancelled(calls[n].future = Pending)]
    /\ UNCHANGED <<auxVars, zoneVars, fibers, wire, stop_task, graphVars, _last_id, _callbacks, sent, _error, on_error_future,
                   eventVars, traceVars, connectVars>>

\* ProtocolCallback.cb (lines 145-149)
cb(n) ==
    /\ calls[n].task.st = "cancelled"
    /\ calls[n].task.cb
    /\ calls' = [calls EXCEPT ![n].task = TaskCancelled(FALSE),
                              ![n].future = IF @ = Pending THEN Cancelled ELSE @]
    /\ UNCHANGED <<auxVars, zoneVars, fibers, wire, stop_task, graphVars, _last_id, _callbacks, sent, _error, on_error_future,
                   eventVars, traceVars, connectVars>>

Falsy(v) ==
    \/ v.t = "none"
    \/ v.t = "dict" /\ DOMAIN v.d = {}
    \/ v.t = "list" /\ v.l = <<>>
    \/ v.t = "str" /\ v.s = ""

AssertionError == [cls |-> "AssertionError"]

\* an unwrap that ignores return_as_dict
UnwrapAlways(result, return_as_dict) ==
    IF Falsy(result) THEN Returned(None)
    ELSE IF result.t # "dict" THEN Raised(AssertionError)
    ELSE IF Cardinality(DOMAIN result.d) # 1 THEN Raised(AssertionError)
    ELSE Returned(result.d[CHOOSE k \in DOMAIN result.d : TRUE])

\* Channel.inner_send after result() returned (lines 81-90)
Unwrap(result, return_as_dict) ==
    IF Falsy(result) THEN Returned(None)
    ELSE IF result.t # "dict" THEN Raised(AssertionError)
    ELSE IF return_as_dict THEN Returned(result)
    ELSE IF Cardinality(DOMAIN result.d) = 0 THEN Returned(None)
    ELSE IF Cardinality(DOMAIN result.d) # 1 THEN Raised(AssertionError)
    ELSE Returned(result.d[CHOOSE k \in DOMAIN result.d : TRUE])

\* a finished future's result(): the value or the raise
FutureResult(f, return_as_dict) ==
    IF f.st = "exception" THEN Raised(f.e) ELSE Unwrap(f.v, return_as_dict)

\* Channel.inner_send resumed after asyncio.wait (lines 69-90); done is the
\* member of the done set that next(iter(done)) yields
CanResume(n, done) ==
    /\ calls[n].task = Awaiting
    /\ done \in {"callback", "transport"}
    /\ done = "callback" => calls[n].future.st \in {"result", "exception"}
    /\ done = "transport" => on_error_future.st = "exception"

Resumed(n, done) ==
    IF done = "transport" THEN Raised(on_error_future.e)
    ELSE FutureResult(calls[n].future, calls[n].kind = "send_return_as_dict")

\* an inner_send that leaves the pending future of the call as it is
Resume_keeps_pending(n, done) ==
    /\ CanResume(n, done)
    /\ calls' = [calls EXCEPT ![n].task = Resumed(n, done)]
    /\ UNCHANGED <<auxVars, zoneVars, fibers, wire, stop_task, graphVars, _last_id, _callbacks, sent, _error, on_error_future,
                   eventVars, traceVars, connectVars>>

Resume(n, done) ==
    /\ CanResume(n, done)
    /\ calls' = [calls EXCEPT ![n].future = IF @ = Pending THEN Cancelled ELSE @,
                              ![n].task = Resumed(n, done)]
    /\ UNCHANGED <<auxVars, zoneVars, fibers, wire, stop_task, graphVars, _last_id, _callbacks, sent, _error, on_error_future,
                   eventVars, traceVars, connectVars>>

\* A message is a leading word (its characters) and the tokens after it.
Msg(word, tail) == [word |-> word, tail |-> tail]
ToLower == ("B" :> "b") @@ ("T" :> "t")
IsUpper(c) == c \in DOMAIN ToLower
IsLower(c) == ~IsUpper(c) /\ c # "_"
Lowered(c) == IF IsUpper(c) THEN ToLower[c] ELSE c

\* _helper.to_snake_case: "_" before a capital that follows a small letter
\* or digit, or that is not first and precedes a small letter; then lower()
RECURSIVE SnakeFrom(_, _)
SnakeFrom(w, i) ==
    IF i > Len(w) THEN <<>>
    ELSE LET mark == /\ IsUpper(w[i])
                     /\ \/ i > 1 /\ IsLower(w[i - 1])
                        \/ i > 1 /\ i < Len(w) /\ IsLower(w[i + 1])
         IN (IF mark THEN <<"_">> ELSE <<>>) \o <<Lowered(w[i])>> \o SnakeFrom(w, i + 1)
to_snake_case(name) == SnakeFrom(name, 1)

Expected == ": expected "
AcceptDownloads == "Pass { acceptDownloads: true }"
accept_downloads == "Pass { accept_downloads: True }"

\* _helper.patch_error_message
patch_error_message(message) ==
    IF message = None THEN None
    ELSE LET match == message.word # <<>> /\ message.tail # <<>> /\ message.tail[1] = Expected
             word == IF match THEN to_snake_case(message.word) ELSE message.word
         IN Msg(word, [i \in DOMAIN message.tail |->
                          IF message.tail[i] = AcceptDownloads THEN accept_downloads
                          ELSE message.tail[i]])

\* a decoder of error records that knows one kind of error only
parse_error_generic(error, n) ==
    [cls |-> "Error", name |-> error.name,
     message |-> patch_error_message(error.message), stack |-> n]

\* _helper.parse_error plus the call-site stack of lines 283-285
parse_error(error, n) ==
    [cls |-> IF error.name = "TimeoutError" THEN "TimeoutError" ELSE "Error",
     name |-> error.name, message |-> patch_error_message(error.message), stack |-> n]

\* a pop of the oldest entry of the table, whatever the id says
PopOldest(id) == CHOOSE k \in DOMAIN _callbacks : \A j \in DOMAIN _callbacks : k <= j

\* line 277: the key that is popped
PopKey(id) == id

\* Connection.dispatch for a message with an id (lines 275-290)
dispatch_reply(msg) ==
    /\ msg.id # 0
    /\ lastMsg' = msg
    /\ removed' = {}
    /\ invoked' = <<>>
    /\ UNCHANGED <<auxVars, zoneVars, fibers, wire, stop_task, graphVars, _last_id, sent, _error, on_error_future, eventVars,
                   connectVars>>
    /\ IF msg.id \notin DOMAIN _callbacks
       THEN raised' = "KeyError" /\ UNCHANGED <<_callbacks, calls>>
       ELSE LET k == PopKey(msg.id)
                n == _callbacks[k]
            IN /\ _callbacks' = Remove(_callbacks, k)
               /\ IF calls[n].future = Cancelled
                  THEN raised' = NoExc /\ UNCHANGED calls
                  ELSE IF calls[n].future # Pending
                  THEN raised' = "InvalidStateError" /\ UNCHANGED calls
                  ELSE IF "error" \in DOMAIN msg
                  THEN /\ raised' = NoExc
                       /\ calls' = [calls EXCEPT ![n].future =
                                        Failed(parse_error(msg.error.error, n))]
                  ELSE LET result == _replace_guids_with_channels(_objects, msg.result)
                       IN IF result = Unhashable
                          THEN raised' = "TypeError" /\ UNCHANGED calls
                          ELSE /\ raised' = NoExc
                               /\ calls' = [calls EXCEPT ![n].future = Result(result)]

(* ------------------------- calls and replies --------------------------- *)
ReplyIds == 1..(MaxCalls + 1)
Ref(g) == Dict("guid" :> Str(g))
RefResult(g) == Dict("browser" :> Ref(g))
ResultReply(k, r) == [id |-> k, result |-> r]
Boom == Msg(<<"b", "o", "o", "m">>, <<>>)
ErrorReplyWith(k, name, message) ==
    [id |-> k, error |-> [error |-> [name |-> name, message |-> message, stack |-> "at server"]]]
ErrorReply(k, name) == ErrorReplyWith(k, name, Boom)
FirstGuid == GuidNames[1]
RefReplies == {ResultReply(k, RefResult(FirstGuid)) : k \in ReplyIds}
CallReplies == RefReplies \cup {ResultReply(k, EmptyDict) : k \in ReplyIds}
CancelReplies ==
    {ResultReply(k, EmptyDict) : k \in ReplyIds} \cup {ErrorReply(k, "Error") : k \in ReplyIds}
FirstCreateMsgs == {CreateMsg(RootGuid, "Page", FirstGuid)}
CallMethod == "launch"

\* calls of the three kinds on the root channel, replies in any order, an
\* object created under the root
NextCalls ==
    \/ run
    \/ Running /\ Len(calls) < MaxCalls /\ send(Root, CallMethod, EmptyDict)
    \/ Running /\ Len(calls) < MaxCalls /\ send_return_as_dict(Root, CallMethod, EmptyDict)
    \/ Running /\ Len(calls) < MaxCalls /\ send_no_reply(Root, CallMethod, EmptyDict)
    \/ \E msg \in CallReplies : Running /\ dispatch_reply(msg)
    \/ \E msg \in FirstCreateMsgs : Running /\ Fresh(msg) /\ dispatch_create(msg)
    \/ \E n \in DOMAIN calls : \E done \in {"callback", "transport"} : Resume(n, done)

\* calls whose callers may be cancelled at any moment
NextCancel ==
    \/ run
    \/ Running /\ Len(calls) < MaxCalls /\ send(Root, CallMethod, EmptyDict)
    \/ \E msg \in CancelReplies : Running /\ dispatch_reply(msg)
    \/ \E n \in DOMAIN calls : CancelTask(n)
    \/ \E n \in DOMAIN calls : cb(n)
    \/ \E n \in DOMAIN calls : \E done \in {"callback", "transport"} : Resume(n, done)

SpecCancel == Init /\ [][NextCancel]_vars

SpecCalls == Init /\ [][NextCalls]_vars

\* the transport fails for good: its error future completes with the error
TransportError == [cls |-> "TransportError"]
transport_fails ==
    /\ Running
    /\ on_error_future = Pending
    /\ on_error_future' = Failed(TransportError)
    /\ UNCHANGED <<auxVars, zoneVars, fibers, wire, stop_task, graphVars, _last_id, _callbacks, calls, sent, _error,
                   eventVars, traceVars, connectVars>>

\* calls, their replies and the failure of the transport, in any order
NextTransport ==
    \/ run
    \/ Running /\ Len(calls) < MaxCalls /\ send(Root, CallMethod, EmptyDict)
    \/ Running /\ Len(calls) < MaxCalls /\ send_return_as_dict(Root, CallMethod, EmptyDict)
    \/ \E k \in DOMAIN _callbacks :
          \E msg \in {ResultReply(k, EmptyDict), ResultReply(k, RefResult(FirstGuid)), ErrorReply(k, "Error")} :
              dispatch_reply(msg)
    \/ \E msg \in FirstCreateMsgs : Running /\ Fresh(msg) /\ dispatch_create(msg)
    \/ transport_fails
    \/ \E n \in DOMAIN calls : \E done \in {"callback", "transport"} : Resume(n, done)

SpecTransport == Init /\ [][NextTransport]_vars

(* ------------------------------ events --------------------------------- *)
\* user handlers; the ones in RaisingHandlers raise when invoked
Handlers == {"h1", "h2", "hx", "hy", "hb"}
RaisingHandlers == {"hx", "hy"}
ListenerError(h) == [cls |-> "ListenerError", by |-> h]
Events == {"close", "page"}

ListenersOf(o, event) ==
    IF <<o, event>> \in DOMAIN listeners THEN listeners[<<o, event>>] ELSE <<>>
Registrations ==
    LET RECURSIVE Sum(_)
        Sum(S) == IF S = {} THEN 0
                  ELSE LET k == CHOOSE x \in S : TRUE
                       IN Len(listeners[k]) + Sum(S \ {k})
    IN Sum(DOMAIN listeners)

\* Channel.on(event, h), inherited from the event emitter
on(o, event, h) ==
    /\ o \in DOMAIN heap
    /\ \A i \in DOMAIN ListenersOf(o, event) : ListenersOf(o, event)[i] # h
    /\ listeners' = Put(listeners, <<o, event>>, Append(ListenersOf(o, event), h))
    /\ UNCHANGED <<auxVars, zoneVars, fibers, wire, stop_task, graphVars, callVars, _is_sync, traceVars, connectVars>>

\* the handlers in BlockingHandlers issue a call of their own and wait for it
BlockingHandlers == {"hb"}
Fiber(h, event) == [h |-> h, event |-> event, st |-> "blocked"]
\* the started listeners that handed control back before they returned, each
\* left suspended in the greenlet made for it (line 326)
Suspended(started, event) ==
    LET RECURSIVE Pick(_)
        Pick(ls) == IF ls = <<>> THEN <<>>
                    ELSE (IF Head(ls) \in BlockingHandlers
                          THEN <<Fiber(Head(ls), event)>> ELSE <<>>) \o Pick(Tail(ls))
    IN Pick(started)

\* handlers invoked last-registered first
RECURSIVE InvokeReversed(_)
InvokeReversed(ls) ==
    IF ls = <<>> THEN [invoked |-> <<>>, exc |-> NoError]
    ELSE LET h == ls[Len(ls)]
         IN IF h \in RaisingHandlers
            THEN [invoked |-> <<h>>, exc |-> ListenerError(h)]
            ELSE LET rest == InvokeReversed(SubSeq(ls, 1, Len(ls) - 1))
                 IN [invoked |-> <<h>> \o rest.invoked, exc |-> rest.exc]

\* listeners run on the dispatcher's own context: one that blocks keeps the
\* loop from reaching the listeners after it
RECURSIVE InvokeUntilBlocked(_)
InvokeUntilBlocked(ls) ==
    IF ls = <<>> THEN [invoked |-> <<>>, exc |-> NoError]
    ELSE IF Head(ls) \in RaisingHandlers
    THEN [invoked |-> <<Head(ls)>>, exc |-> ListenerError(Head(ls))]
    ELSE IF Head(ls) \in BlockingHandlers
    THEN [invoked |-> <<Head(ls)>>, exc |-> NoError]
    ELSE LET rest == InvokeUntilBlocked(Tail(ls))
         IN [invoked |-> <<Head(ls)>> \o rest.invoked, exc |-> rest.exc]

\* every handler is called; the exception of the last one that raised is kept
RECURSIVE InvokeAll(_)
InvokeAll(ls) ==
    IF ls = <<>> THEN [invoked |-> <<>>, exc |-> NoError]
    ELSE LET rest == InvokeAll(Tail(ls))
         IN [invoked |-> <<Head(ls)>> \o rest.invoked,
             exc |-> IF rest.exc # NoError THEN rest.exc
                     ELSE IF Head(ls) \in RaisingHandlers THEN ListenerError(Head(ls))
                     ELSE NoError]

\* the handlers are called one after the other until one raises
\* (the for loop of lines 322-330, the emit of lines 333-337)
RECURSIVE InvokeInOrder(_)
InvokeInOrder(ls) ==
    IF ls = <<>> THEN [invoked |-> <<>>, exc |-> NoError]
    ELSE IF Head(ls) \in RaisingHandlers
    THEN [invoked |-> <<Head(ls)>>, exc |-> ListenerError(Head(ls))]
    ELSE LET rest == InvokeInOrder(Tail(ls))
         IN [invoked |-> <<Head(ls)>> \o rest.invoked, exc |-> rest.exc]

JsonPipeGuids == {"jsonPipe@1"}
should_replace_guids_with_channels(guid) == guid \notin JsonPipeGuids

\* a dispatch without the try block: the listener's exception leaves it
dispatch_event_uncaught(msg) ==
    /\ msg.method \notin {"__create__", "__adopt__", "__dispose__"}
    /\ lastMsg' = msg
    /\ removed' = {}
    /\ UNCHANGED <<auxVars, zoneVars, fibers, wire, stop_task, graphVars, callVars, eventVars, connectVars>>
    /\ IF msg.guid \notin DOMAIN _objects
       THEN raised' = CannotFind /\ invoked' = <<>>
       ELSE LET ran == InvokeInOrder(ListenersOf(_objects[msg.guid], msg.method))
            IN /\ raised' = IF ran.exc # NoError THEN "ListenerError" ELSE NoExc
               /\ invoked' = [i \in DOMAIN ran.invoked |->
                                 [h |-> ran.invoked[i], args |-> msg.params]]

\* a dispatch that drops an event for an id that is not in the index
dispatch_event_lenient(msg) ==
    /\ msg.method \notin {"__create__", "__adopt__", "__dispose__"}
    /\ lastMsg' = msg
    /\ removed' = {}
    /\ UNCHANGED <<auxVars, zoneVars, fibers, wire, stop_task, graphVars, _last_id, _callbacks, calls, sent, on_error_future, eventVars,
                   connectVars>>
    /\ IF msg.guid \notin DOMAIN _objects
       THEN raised' = NoExc /\ invoked' = <<>> /\ UNCHANGED _error
       ELSE LET ran == InvokeInOrder(ListenersOf(_objects[msg.guid], msg.method))
            IN /\ raised' = NoExc
               /\ invoked' = [i \in DOMAIN ran.invoked |->
                                 [h |-> ran.invoked[i], args |-> msg.params]]
               /\ _error' = IF ran.exc # NoError THEN ran.exc ELSE _error

\* a dispatch that takes the object of an event out of the graph
dispatch_event_disposing(msg) == dispatch_dispose(DisposeMsg(msg.guid))

\* a dispatch that keeps the error it has already stored
dispatch_event_keeps_first(msg) ==
    /\ msg.method \notin {"__create__", "__adopt__", "__dispose__"}
    /\ lastMsg' = msg
    /\ removed' = {}
    /\ UNCHANGED <<route_handler, enter_task, known, _waiting_for_object, transport, child_ws, disposal, zoneVars, wire, stop_task, graphVars, _last_id, _callbacks, calls, sent, on_error_future, eventVars,
                   connectVars>>
    /\ IF msg.guid \notin DOMAIN _objects
       THEN raised' = CannotFind /\ invoked' = <<>> /\ UNCHANGED <<route_handler, _error, fibers, shadowed>>
       ELSE LET object == _objects[msg.guid]
                args == IF should_replace_guids_with_channels(msg.guid)
                        THEN _replace_guids_with_channels(_objects, msg.params)
                        ELSE msg.params
                ls == ListenersOf(object, msg.method)
                \* the arguments are decoded once a listener is there in sync
                \* mode (line 328), before the lookup otherwise (line 334)
                ran == IF args = Unhashable /\ (~_is_sync \/ ls # <<>>)
                       THEN [invoked |-> <<>>, exc |-> [cls |-> "TypeError"]]
                       ELSE InvokeInOrder(ls)
            IN /\ raised' = NoExc
               /\ invoked' = [i \in DOMAIN ran.invoked |-> [h |-> ran.invoked[i], args |-> args]]
               /\ _error' = IF ran.exc # NoError /\ _error = NoError THEN ran.exc ELSE _error
               /\ shadowed' = IF ran.exc # NoError THEN _error ELSE shadowed
               /\ fibers' = fibers \o Suspended(ran.invoked, msg.method)

\* Connection.dispatch for an application event (lines 292-294, 303-305, 318-341)
dispatch_event(msg) ==
    /\ msg.method \notin {"__create__", "__adopt__", "__dispose__"}
    /\ lastMsg' = msg
    /\ removed' = {}
    /\ UNCHANGED <<route_handler, enter_task, known, _waiting_for_object, transport, child_ws, disposal, zoneVars, wire, stop_task, graphVars, _last_id, _callbacks, calls, sent, on_error_future, eventVars,
                   connectVars>>
    /\ IF msg.guid \notin DOMAIN _objects
       THEN raised' = CannotFind /\ invoked' = <<>> /\ UNCHANGED <<route_handler, _error, fibers, shadowed>>
       ELSE LET object == _objects[msg.guid]
                args == IF should_replace_guids_with_channels(msg.guid)
                        THEN _replace_guids_with_channels(_objects, msg.params)
                        ELSE msg.params
                ls == ListenersOf(object, msg.method)
                \* the arguments are decoded once a listener is there in sync
                \* mode (line 328), before the lookup otherwise (line 334)
                ran == IF args = Unhashable /\ (~_is_sync \/ ls # <<>>)
                       THEN [invoked |-> <<>>, exc |-> [cls |-> "TypeError"]]
                       ELSE InvokeInOrder(ls)
            IN /\ raised' = NoExc
               /\ invoked' = [i \in DOMAIN ran.invoked |-> [h |-> ran.invoked[i], args |-> args]]
               /\ _error' = IF ran.exc # NoError THEN ran.exc ELSE _error
               /\ shadowed' = IF ran.exc # NoError THEN _error ELSE shadowed
               /\ fibers' = fibers \o Suspended(ran.invoked, msg.method)

EventMsg(guid, method, params) == [guid |-> guid, method |-> method, params |-> params]
EventMsgs == {EventMsg(g, e, None) : g \in {RootGuid, FirstGuid}, e \in Events}

\* the object of the events is of a recognised type or not
TypedCreateMsgs == {CreateMsg(RootGuid, ty, FirstGuid) : ty \in Types}

\* events for the root and one more object, handlers that return or raise
NextEvents ==
    \/ run
    \/ run_as_sync
    \/ \E msg \in TypedCreateMsgs : Running /\ Fresh(msg) /\ dispatch_create(msg)
    \/ Running /\ dispatch_adopt(AdoptMsg(RootGuid, FirstGuid))
    \/ Running /\ dispatch_dispose(DisposeMsg(FirstGuid))
    \/ \E o \in DOMAIN heap : \E e \in Events : \E h \in {"h1", "h2", "hx"} :
          Registrations < MaxListeners /\ on(o, e, h)
    \/ \E msg \in EventMsgs : Running /\ dispatch_event(msg)

SpecEvents == Init /\ [][NextEvents]_vars

CloseMsgs == {EventMsg(RootGuid, "close", None)}

\* listener faults and the calls that surface them
NextError ==
    \/ run
    \/ run_as_sync
    \/ \E h \in RaisingHandlers : Registrations < MaxListeners /\ on(Root, "close", h)
    \/ \E msg \in CloseMsgs : Running /\ dispatch_event(msg)
    \/ Running /\ Len(calls) < MaxCalls /\ send(Root, CallMethod, EmptyDict)
    \/ Running /\ Len(calls) < MaxCalls /\ send_return_as_dict(Root, CallMethod, EmptyDict)
    \/ Running /\ Len(calls) < MaxCalls /\ send_no_reply(Root, CallMethod, EmptyDict)

SpecError == Init /\ [][NextError]_vars

\* events for an object the server created and disposed, and for an id it
\* never created
StrayMsgs == {EventMsg(g, "close", None) : g \in {FirstGuid, GuidNames[2]}}
\* a second object under the root or under the first one, and its adoption
\* by the first one
SecondCreateMsgs == {CreateMsg(p, "Page", GuidNames[2]) : p \in {RootGuid, FirstGuid}}
ByFirstMsgs == {AdoptMsg(FirstGuid, GuidNames[2])}

\* events addressed to ids that are not in the index, with calls pending
NextStray ==
    \/ run
    \/ run_as_sync
    \/ \E msg \in FirstCreateMsgs : Running /\ Fresh(msg) /\ dispatch_create(msg)
    \/ \E msg \in SecondCreateMsgs : Running /\ Fresh(msg) /\ dispatch_create(msg)
    \/ \E msg \in ByFirstMsgs : Running /\ dispatch_adopt(msg)
    \/ Running /\ dispatch_dispose(DisposeMsg(FirstGuid))
    \/ \E o \in (DOMAIN heap) \ {Root} : \E h \in {"h1", "hx"} :
          Registrations < MaxListeners /\ on(o, "close", h)
    \/ Running /\ Len(calls) < MaxCalls /\ send(Root, CallMethod, EmptyDict)
    \/ \E msg \in StrayMsgs : Running /\ dispatch_event(msg)

SpecStray == Init /\ [][NextStray]_vars

(* ------------------------- transport delivery -------------------------- *)
\* Connection.dispatch: a reply when the message has an id, else a
\* notification by its method
dispatch(msg) ==
    IF "id" \in DOMAIN msg THEN dispatch_reply(msg)
    ELSE CASE msg.method = "__create__" -> dispatch_create(msg)
           [] msg.method = "__adopt__" -> dispatch_adopt(msg)
           [] msg.method = "__dispose__" -> dispatch_dispose(msg)
           [] OTHER -> dispatch_event(msg)

IsReplyTo(m, id) == "id" \in DOMAIN m /\ m.id = id

\* a handler that notes the message and leaves its dispatch for later
on_message_deferred(msg) ==
    /\ lastMsg' = msg
    /\ UNCHANGED <<auxVars, zoneVars, fibers, wire, stop_task, graphVars, callVars, eventVars, raised, removed, invoked,
                   connectVars>>

\* line 187: the transport's on_message is dispatch itself
on_message(msg) == dispatch(msg)

\* the server writes a message it has not written before
server_writes(msg) ==
    /\ \A k \in DOMAIN wire : wire[k] # msg
    /\ wire' = Append(wire, msg)
    /\ UNCHANGED <<auxVars, zoneVars, fibers, stop_task, graphVars, callVars, eventVars, traceVars, connectVars>>

\* the place on the wire of the message dispatched last
Pumped ==
    IF \E k \in DOMAIN wire : wire[k] = lastMsg
    THEN CHOOSE k \in DOMAIN wire : wire[k] = lastMsg
    ELSE 0

\* Transport.run: the oldest message not handed over yet goes to on_message
pump == Pumped < Len(wire) /\ on_message(wire[Pumped + 1])

\* the server answers a call it has received, once
Answerable(msg) ==
    /\ \E n \in DOMAIN calls : calls[n].id = msg.id
    /\ \A k \in DOMAIN wire : IsReplyTo(wire[k], msg.id) = FALSE
OrderNotes == FirstCreateMsgs \cup CloseMsgs

\* calls, an object and an event whose messages queue up on the transport
NextOrder ==
    \/ run
    \/ run_as_sync
    \/ \E h \in {"h1", "h2"} : Registrations < MaxListeners /\ on(Root, "close", h)
    \/ Running /\ Len(calls) < MaxCalls /\ send(Root, CallMethod, EmptyDict)
    \/ \E msg \in RefReplies : Running /\ Answerable(msg) /\ server_writes(msg)
    \/ \E msg \in OrderNotes : Running /\ server_writes(msg)
    \/ pump
    \/ \E n \in DOMAIN calls : \E done \in {"callback", "transport"} : Resume(n, done)

SpecOrder == Init /\ [][NextOrder]_vars

\* listeners that raise on two events of the root, and the calls after them
RootEventMsgs == {EventMsg(RootGuid, e, None) : e \in Events}
NextFaults ==
    \/ run
    \/ run_as_sync
    \/ \E e \in Events : \E h \in RaisingHandlers :
          Registrations < MaxListeners /\ on(Root, e, h)
    \/ \E msg \in RootEventMsgs : Running /\ dispatch_event(msg)
    \/ Running /\ Len(calls) < MaxCalls /\ send(Root, CallMethod, EmptyDict)
    \/ Running /\ Len(calls) < MaxCalls /\ send_return_as_dict(Root, CallMethod, EmptyDict)

SpecFaults == Init /\ [][NextFaults]_vars

(* ------------------------ who changes the graph ------------------------ *)
FrameLifecycle ==
    FirstCreateMsgs \cup SecondCreateMsgs \cup ByFirstMsgs \cup {DisposeMsg(FirstGuid)}
FrameCalls ==
    \/ send(Root, CallMethod, EmptyDict)
    \/ send_return_as_dict(Root, CallMethod, EmptyDict)
    \/ send_no_reply(Root, CallMethod, EmptyDict)
FrameReply ==
    \E k \in DOMAIN _callbacks : dispatch(ResultReply(k, RefResult(FirstGuid)))
FrameEvent == \E msg \in StrayMsgs : Running /\ dispatch(msg)
FrameNotified ==
    \E msg \in FrameLifecycle :
        Running /\ (msg.method = "__create__" => Fresh(msg)) /\ dispatch(msg)

\* calls, replies, events and lifecycle notifications side by side
NextFrame ==
    \/ run
    \/ Running /\ Len(calls) < MaxCalls /\ FrameCalls
    \/ FrameReply
    \/ FrameEvent
    \/ FrameNotified
    \/ \E o \in (DOMAIN heap) \ {Root} :
          Registrations < MaxListeners /\ on(o, "close", "h1")

SpecFrame == Init /\ [][NextFrame]_vars

(* --------------------------- call metadata ----------------------------- *)
\* file names are strings: their characters, in order
playwright_module_path == <<"p", "w">>
LibFile == <<"p", "w", "/", "a">>
AppFile == <<"t", "/", "a">>
startswith(s, prefix) ==
    Len(s) >= Len(prefix) /\ SubSeq(s, 1, Len(prefix)) = prefix

\* a frame with the method name the loop computes for it (lines 439-442)
FrameInfo(filename, method_name) ==
    [filename |-> filename, lineno |-> 1, method_name |-> method_name]
LibFrames == {FrameInfo(LibFile, n) : n \in {"Page.goto", "Connection.dispatch"}}
AppFrames == {FrameInfo(AppFile, "handler")}
is_playwright_internal(frame) == startswith(frame.filename, playwright_module_path)

\* the stacks inspect.stack() yields inside the library: the innermost frame,
\* the first one, is the library's own
StacksOf(len) ==
    {st \in [1..len -> LibFrames \cup AppFrames] : is_playwright_internal(st[1])}
Stacks == UNION {StacksOf(len) : len \in 1..MaxFrames}

InternalMetadata == [apiName |-> "", stack |-> <<>>, internal |-> TRUE]
StackEntry(frame) ==
    [file |-> frame.filename, line |-> frame.lineno, function |-> frame.method_name]

\* the loop of lines 436-457 over the frames from the i-th on
RECURSIVE WalkFrames(_, _, _)
WalkFrames(st, i, acc) ==
    IF i > Len(st) THEN acc
    ELSE LET frame == st[i]
             stack == IF is_playwright_internal(frame) THEN acc.stack
                      ELSE Append(acc.stack, StackEntry(frame))
         IN WalkFrames(st, i + 1,
                IF is_playwright_internal(frame)
                THEN [acc EXCEPT !.last_internal_api_name = frame.method_name,
                                 !.stack = stack]
                ELSE IF acc.last_internal_api_name # ""
                THEN [acc EXCEPT !.api_name = acc.last_internal_api_name,
                                 !.last_internal_api_name = "",
                                 !.stack = stack]
                ELSE [acc EXCEPT !.stack = stack])

\* _extract_metadata_from_stack (lines 424-465)
_extract_metadata_from_stack(st, is_internal) ==
    IF is_internal THEN InternalMetadata
    ELSE LET end == WalkFrames(st, 1, [last_internal_api_name |-> "", api_name |-> "",
                                      stack |-> <<>>])
             api_name == IF end.api_name = "" THEN end.last_internal_api_name
                         ELSE end.api_name
         IN IF api_name # "" THEN [apiName |-> api_name, stack |-> end.stack]
            ELSE None

(* ------------------------------ the zone ------------------------------- *)
\* what `if value:` takes for true: a dict with keys; None is not
Truthy(v) == v # None

\* one activation of wrap_api_call or wrap_api_call_sync; top says that it
\* went past the check of lines 388 and 403, call is the request of a
\* Channel.send it stands for
Activation(top, st, is_internal, state, call) ==
    [top |-> top, st |-> st, is_internal |-> is_internal, state |-> state, call |-> call]
Active(c) == {i \in DOMAIN wraps[c] : wraps[c][i].state = "active"}
Innermost(c) == CHOOSE i \in Active(c) : \A j \in Active(c) : j <= i
Outermost(c) == CHOOSE i \in Active(c) : \A j \in Active(c) : i <= j

\* the zone as wrap_api_call leaves it before it calls cb (lines 388-394)
ZoneEntered(zone, st, is_internal) ==
    LET metadata == _extract_metadata_from_stack(st, is_internal)
    IN IF Truthy(zone) THEN zone
       ELSE IF Truthy(metadata) THEN metadata ELSE zone

\* an exit that clears the zone whoever set it
ZoneLeftCleared(zone, top) == None

\* the zone after cb: the finally of lines 397-398 runs for the activation
\* that went past the check only
ZoneLeft(zone, top) == IF top THEN None ELSE zone

\* wrap_api_call up to the point where cb runs, for a cb that is not a
\* single request
wrap_api_call(c, st, is_internal) ==
    /\ wraps' = [wraps EXCEPT ![c] =
                    Append(@, Activation(~Truthy(_api_zone[c]), st, is_internal, "active", 0))]
    /\ _api_zone' = [_api_zone EXCEPT ![c] = ZoneEntered(@, st, is_internal)]
    /\ UNCHANGED <<auxVars, metas, fibers, wire, stop_task, graphVars, callVars, eventVars, traceVars,
                   connectVars>>

\* Channel.send (lines 42-45): wrap_api_call around inner_send, up to the
\* await of inner_send
zone_send(c, st, o, method, params) ==
    LET zone == ZoneEntered(_api_zone[c], st, FALSE)
        top == ~Truthy(_api_zone[c])
    IN       /\ metas' = Append(metas, zone)
       /\ IF _error # NoError
          THEN \* inner_send raises before its await: the finally runs at once
               /\ wraps' = [wraps EXCEPT ![c] =
                               Append(@, Activation(top, st, FALSE, "raised", Len(calls) + 1))]
               /\ _api_zone' = [_api_zone EXCEPT ![c] = ZoneLeft(zone, top)]
               /\ SendFrom("send", o, method, params, Raised(_error), NoError)
          ELSE /\ wraps' = [wraps EXCEPT ![c] =
                               Append(@, Activation(top, st, FALSE, "active", Len(calls) + 1))]
               /\ _api_zone' = [_api_zone EXCEPT ![c] = zone]
               /\ SendFrom("send", o, method, params, Awaiting, _error)

\* Channel.send_no_reply (lines 52-57): wrap_api_call_sync around the request,
\* from its first line to its finally
zone_send_no_reply(c, st, o, method, params) ==
    LET zone == ZoneEntered(_api_zone[c], st, FALSE)
        top == ~Truthy(_api_zone[c])
    IN /\ wraps' = [wraps EXCEPT ![c] =
                       Append(@, Activation(top, st, FALSE, "returned", Len(calls) + 1))]
       /\ metas' = Append(metas, zone)
       /\ _api_zone' = [_api_zone EXCEPT ![c] = ZoneLeft(zone, top)]
       /\ SendFrom("send_no_reply", o, method, params, RunningOn, _error)

\* cb is over: it returned or it raised. The cb of a Channel.send is over when
\* its inner_send is
CbOver(a, outcome) ==
    IF a.call = 0 THEN outcome \in {"returned", "raised"}
    ELSE calls[a.call].task.st = outcome
wrap_api_call_done(c, outcome) ==
    /\ Active(c) # {}
    /\ CbOver(wraps[c][Innermost(c)], outcome)
    /\ wraps' = [wraps EXCEPT ![c][Innermost(c)].state = outcome]
    /\ _api_zone' = [_api_zone EXCEPT ![c] = ZoneLeft(@, wraps[c][Innermost(c)].top)]
    /\ UNCHANGED <<auxVars, metas, fibers, wire, stop_task, graphVars, callVars, eventVars, traceVars,
                   connectVars>>

\* one task, one wrap at a time, every stack
NextMeta ==
    \/ run
    \/ \E st \in Stacks : \E is_internal \in BOOLEAN :
           Running /\ wraps["t1"] = <<>> /\ wrap_api_call("t1", st, is_internal)
    \/ \E st \in Stacks :
           /\ Running /\ wraps["t1"] = <<>>
           /\ zone_send_no_reply("t1", st, Root, CallMethod, EmptyDict)
    \/ \E outcome \in {"returned", "raised"} : wrap_api_call_done("t1", outcome)

SpecMeta == Init /\ [][NextMeta]_vars

\* the stacks of a call made from the test and of a request made by the
\* library on its own
FromTest == <<FrameInfo(LibFile, "Page.goto"), FrameInfo(AppFile, "handler")>>
Unnamed == <<FrameInfo(LibFile, "Connection.dispatch")>>
ZoneCalls == {<<FromTest, FALSE>>, <<Unnamed, TRUE>>}
ZoneReplies(k) == {ResultReply(k, EmptyDict), ErrorReply(k, "Error")}
\* the task is not suspended in a Channel.send of its own
Free(c) == IF Active(c) = {} THEN TRUE ELSE wraps[c][Innermost(c)].call = 0
Wraps ==
    LET RECURSIVE Sum(_)
        Sum(S) == IF S = {} THEN 0
                  ELSE LET c == CHOOSE x \in S : TRUE IN Len(wraps[c]) + Sum(S \ {c})
    IN Sum(Contexts)
CanWrap(c) == Running /\ Free(c) /\ Wraps < MaxWraps
CanSend(c) == CanWrap(c) /\ Len(calls) < MaxCalls

\* two tasks whose API calls nest, send requests and end either way
NextZone ==
    \/ run
    \/ \E c \in Contexts : \E call \in ZoneCalls :
           CanWrap(c) /\ wrap_api_call(c, call[1], call[2])
    \/ \E c \in Contexts : CanSend(c) /\ zone_send(c, Unnamed, Root, CallMethod, EmptyDict)
    \/ \E c \in Contexts :
           CanSend(c) /\ zone_send_no_reply(c, Unnamed, Root, CallMethod, EmptyDict)
    \/ \E k \in DOMAIN _callbacks : \E msg \in ZoneReplies(k) : dispatch_reply(msg)
    \/ \E n \in DOMAIN calls : Resume(n, "callback")
    \/ \E c \in Contexts : \E outcome \in {"returned", "raised"} :
           wrap_api_call_done(c, outcome)

SpecZone == Init /\ [][NextZone]_vars

(* ---------------------- listeners that block ---------------------------- *)
\* the call a suspended listener issued: it calls the method named after its
\* event; 0 while the task of the call has not run yet
FiberCall(f) ==
    IF \E n \in DOMAIN sent : sent[n].method = f.event
    THEN CHOOSE n \in DOMAIN sent : sent[n].method = f.event
    ELSE 0

\* the task the blocked listener created gets its turn on the loop and issues
\* the call
fiber_call(i) ==
    /\ fibers[i].st = "blocked"
    /\ FiberCall(fibers[i]) = 0
    /\ send(Root, fibers[i].event, EmptyDict)

\* the task of the call is done: its done-callback switches back into the
\* listener's greenlet, which runs to its end
fiber_resume(i) ==
    /\ fibers[i].st = "blocked"
    /\ FiberCall(fibers[i]) # 0
    /\ calls[FiberCall(fibers[i])].task.st \in {"returned", "raised"}
    /\ fibers' = [fibers EXCEPT ![i].st = "done"]
    /\ UNCHANGED <<auxVars, zoneVars, wire, stop_task, graphVars, callVars, eventVars, traceVars, connectVars>>

FiberNotes == {EventMsg(RootGuid, e, None) : e \in Events}
FiberReplies == {ResultReply(k, EmptyDict) : k \in ReplyIds}
FiberListens ==
    \E e \in Events : \E h \in {"hb", "h1"} :
        Running /\ Registrations < MaxListeners /\ on(Root, e, h)
FiberServerNotes == \E msg \in FiberNotes : Running /\ server_writes(msg)
FiberServerReplies == \E msg \in FiberReplies : Answerable(msg) /\ server_writes(msg)
FiberCalls == \E i \in DOMAIN fibers : fiber_call(i)
FiberResumes == \E i \in DOMAIN fibers : fiber_resume(i)
FiberTasks == \E n \in DOMAIN calls : Resume(n, "callback")

\* blocking mode: events whose listeners call back into the connection
NextFibers ==
    \/ run_as_sync
    \/ FiberListens
    \/ FiberServerNotes
    \/ FiberServerReplies
    \/ pump
    \/ FiberCalls
    \/ FiberTasks
    \/ FiberResumes

\* the loop runs every ready task and callback, the transport hands over
\* every message, the server answers every call
SpecFibers ==
    /\ Init
    /\ [][NextFibers]_vars
    /\ WF_vars(pump)
    /\ WF_vars(FiberCalls)
    /\ WF_vars(FiberTasks)
    /\ WF_vars(FiberResumes)
    /\ WF_vars(FiberServerReplies)

(* ------------------------- payload round trip -------------------------- *)
Wrap(S) ==
    {List(<<x>>) : x \in S} \cup {Dict("k" :> x) : x \in S}
        \cup {Dict("guid" :> x) : x \in S}
        \cup {Dict(("guid" :> Str(FirstGuid)) @@ ("k" :> x)) : x \in S}
RECURSIVE Nest(_, _)
Nest(S, d) == IF d = 0 THEN S ELSE S \cup Wrap(Nest(S, d - 1))

\* parameter records that embed the channels of the objects in the index
CodecParams ==
    {p \in Nest({Chan(o) : o \in Range(_objects)} \cup {None}, MaxDepth) : p.t = "dict"}

RootCreateMsgs == {CreateMsg(RootGuid, "Page", g) : g \in Guids}
GuidDisposeMsgs == {DisposeMsg(g) : g \in Guids}

\* one call whose parameters come back as the result of its reply
NextCodec ==
    \/ run
    \/ \E msg \in RootCreateMsgs : Running /\ Fresh(msg) /\ dispatch_create(msg)
    \/ \E msg \in GuidDisposeMsgs : Running /\ dispatch_dispose(msg)
    \/ \E p \in CodecParams : Running /\ calls = <<>> /\ send(Root, CallMethod, p)
    \/ \E n \in DOMAIN calls : Running /\ dispatch_reply(ResultReply(calls[n].id, sent[n].params))
    \/ \E n \in DOMAIN calls : \E done \in {"callback", "transport"} : Resume(n, done)

SpecCodec == Init /\ [][NextCodec]_vars

\* records whose guid, where they have one, is a name: channels of the
\* objects in the index and the name of the first guid, nested
NamedWrap(S) ==
    {List(<<x>>) : x \in S} \cup {Dict("k" :> x) : x \in S}
        \cup {Dict(("guid" :> Str(FirstGuid)) @@ ("k" :> x)) : x \in S}
RECURSIVE NamedNest(_, _)
NamedNest(S, d) == IF d = 0 THEN S ELSE S \cup NamedWrap(NamedNest(S, d - 1))
DecodeParams ==
    {p \in NamedNest({Chan(o) : o \in Range(_objects)} \cup {None}, MaxDepth) : p.t = "dict"}

\* one call whose parameters come back as the result of its reply, while the
\* objects they name come and go
NextDecode ==
    \/ run
    \/ \E msg \in RootCreateMsgs : Running /\ Fresh(msg) /\ dispatch_create(msg)
    \/ \E msg \in GuidDisposeMsgs : Running /\ dispatch_dispose(msg)
    \/ Running /\ calls = <<>> /\ \E p \in DecodeParams : send(Root, CallMethod, p)
    \/ \E n \in DOMAIN calls : Running /\ dispatch_reply(ResultReply(calls[n].id, sent[n].params))
    \/ \E n \in DOMAIN calls : Resume(n, "callback")

SpecDecode == Init /\ [][NextDecode]_vars

(* -------------------------- outgoing params ---------------------------- *)
\* the values a caller puts in params: channels of the objects in the
\* index, a path, a string, nothing
Leaves == {Chan(o) : o \in Range(_objects)} \cup {PathV("/tmp/f"), Str("s"), None}
\* records with a two-element list: a value and a nest of values
EncodeParams ==
    {Dict("args" :> List(<<x, y>>)) : x \in Leaves, y \in Nest(Leaves, MaxDepth - 1)}

\* calls of the three kinds with channels and paths nested in their params
NextEncode ==
    \/ run
    \/ \E msg \in FirstCreateMsgs : Running /\ Fresh(msg) /\ dispatch_create(msg)
    \/ \E p \in EncodeParams : Running /\ calls = <<>> /\ send(Root, CallMethod, p)
    \/ \E p \in EncodeParams : Running /\ calls = <<>> /\ send_return_as_dict(Root, CallMethod, p)
    \/ \E p \in EncodeParams : Running /\ calls = <<>> /\ send_no_reply(Root, CallMethod, p)

SpecEncode == Init /\ [][NextEncode]_vars

(* ----------------------- BrowserType.connect --------------------------- *)
AttributeError == [cls |-> "AttributeError"]
InvalidStateError == [cls |-> "InvalidStateError"]
\* _browser_type.py line 225
ConnectionTimedOut == [cls |-> "Error", message |-> "Connection timed out"]

InitSent == \E i \in DOMAIN sent : sent[i].method = "initialize"

\* the init task of Connection.run up to its await: RootChannelOwner.initialize
init ==
    /\ Running
    /\ ~InitSent
    /\ send(Root, "initialize", Dict("sdkLanguage" :> Str("python")))

\* the init task resumed: from_channel of the result, then
\* playwright_future.set_result (line 222)
init_resume(n, done) ==
    /\ sent[n].method = "initialize"
    /\ CanResume(n, done)
    /\ LET t == Resumed(n, done)
           task == IF t.st # "returned" THEN t
                   ELSE IF t.v.t # "chan" THEN Raised(AttributeError)
                   ELSE IF playwright_future # Pending THEN Raised(InvalidStateError)
                   ELSE Returned(None)
       IN /\ calls' = [calls EXCEPT ![n].future = IF @ = Pending THEN Cancelled ELSE @,
                                    ![n].task = task]
          /\ playwright_future' = IF task = Returned(None) THEN Result(t.v.o)
                                  ELSE playwright_future
    /\ UNCHANGED <<auxVars, zoneVars, fibers, wire, stop_task, graphVars, _last_id, _callbacks, sent, _error, on_error_future,
                   eventVars, traceVars, timeout_future, connect_task>>

\* BrowserType.connect up to its asyncio.wait (lines 214-229)
connect ==
    /\ connect_task = Idle
    /\ connect_task' = Awaiting
    /\ timeout_future' = Pending
    /\ UNCHANGED <<auxVars, zoneVars, fibers, wire, stop_task, graphVars, callVars, eventVars, traceVars, playwright_future>>

\* the task made by throw_on_timeout raises the exception it was given
throw_on_timeout ==
    /\ timeout_future = Pending
    /\ timeout_future' = Failed(ConnectionTimedOut)
    /\ UNCHANGED <<auxVars, zoneVars, fibers, wire, stop_task, graphVars, callVars, eventVars, traceVars, playwright_future, connect_task>>

FutureDone(f) == f.st \in {"result", "exception"}
DoneSet ==
    {d \in {"transport", "playwright", "timeout"} :
        FutureDone(CASE d = "transport" -> on_error_future
                     [] d = "playwright" -> playwright_future
                     [] d = "timeout" -> timeout_future)}

\* lines 235-238 once the Playwright object is there
PreLaunched(playwright) ==
    LET initializer == heap[playwright].initializer
        pre == IF initializer.t = "dict" /\ "preLaunchedBrowser" \in DOMAIN initializer.d
               THEN initializer.d["preLaunchedBrowser"] ELSE None
    IN IF Falsy(pre) THEN Raised(AssertionError)
       ELSE IF pre.t # "chan" THEN Raised(AttributeError)
       ELSE Returned(pre)

\* BrowserType.connect resumed (lines 230-238); d is next(iter(done))
connect_resume(d) ==
    /\ connect_task = Awaiting
    /\ d \in DoneSet
    /\ playwright_future' = IF playwright_future = Pending THEN Cancelled ELSE playwright_future
    /\ timeout_future' = IF timeout_future = Pending THEN Cancelled ELSE timeout_future
    /\ connect_task' = CASE d = "timeout" -> Raised(timeout_future.e)
                         [] d = "transport" -> Raised(on_error_future.e)
                         [] d = "playwright" ->
                              IF playwright_future.st = "exception"
                              THEN Raised(playwright_future.e)
                              ELSE PreLaunched(playwright_future.v)
    \* line 236 is reached once result() has returned, the once("close") of
    \* line 251 once the lines before it have
    /\ child_ws' = IF d = "playwright" /\ playwright_future.st = "result"
                   THEN [child_ws EXCEPT
                            !.tracked = TRUE,
                            !.on_close = PreLaunched(playwright_future.v).st = "returned"]
                   ELSE child_ws
    /\ UNCHANGED <<route_handler, shadowed, enter_task, known, _waiting_for_object, transport, disposal, zoneVars, fibers, wire, stop_task, graphVars, callVars, eventVars, traceVars>>

SecondGuid == GuidNames[2]
ConnectCreateMsgs ==
    {CreateMsg(RootGuid, "Browser", SecondGuid),
     [guid |-> RootGuid, method |-> "__create__",
      params |-> [type |-> "Playwright", guid |-> FirstGuid,
                  initializer |-> Dict("preLaunchedBrowser" :> Ref(SecondGuid))]]}
\* the server answers "initialize" once, with the Playwright object or an error
InitReplies(id) ==
    {ResultReply(id, Dict("playwright" :> Ref(FirstGuid))), ErrorReply(id, "Error")}

\* a connection opened by BrowserType.connect against its deadline
NextConnect ==
    \/ connect
    \/ connect_task # Idle /\ run
    \/ init
    \/ \E msg \in ConnectCreateMsgs :
          Running /\ msg.params.guid \notin Created /\ dispatch_create(msg)
    \/ \E n \in DOMAIN calls : \E msg \in InitReplies(calls[n].id) :
          Running /\ msg.id \in DOMAIN _callbacks /\ dispatch_reply(msg)
    \/ \E n \in DOMAIN calls : \E done \in {"callback", "transport"} : init_resume(n, done)
    \/ throw_on_timeout
    \/ \E d \in {"transport", "playwright", "timeout"} : connect_resume(d)

SpecConnect == Init /\ [][NextConnect]_vars

(* --------------------------- result shapes ----------------------------- *)
OneField == Dict("value" :> Str("v"))
TwoFields == Dict(("a" :> Str("x")) @@ ("b" :> Str("y")))
UnwrapResults == {None, EmptyDict, OneField, TwoFields, Str("raw"), List(<<>>)}

\* calls through send and send_return_as_dict answered with results of
\* every shape
NextUnwrap ==
    \/ run
    \/ Running /\ Len(calls) < MaxCalls /\ send(Root, CallMethod, EmptyDict)
    \/ Running /\ Len(calls) < MaxCalls /\ send_return_as_dict(Root, CallMethod, EmptyDict)
    \/ \E k \in DOMAIN _callbacks : \E r \in UnwrapResults : dispatch_reply(ResultReply(k, r))
    \/ \E n \in DOMAIN calls : \E done \in {"callback", "transport"} : Resume(n, done)

SpecUnwrap == Init /\ [][NextUnwrap]_vars

(* ---------------------------- remote errors ---------------------------- *)
ErrorNames == {"TimeoutError", "Error"}
ToBeExpected == Msg(<<"t", "o", "B", "e">>, <<Expected, "x">>)
PassAccept == Msg(<<>>, <<AcceptDownloads>>)
ErrorMessages == {Boom, ToBeExpected, PassAccept}
ErrorReplies ==
    {ErrorReplyWith(k, name, m) : k \in ReplyIds, name \in ErrorNames, m \in ErrorMessages}

\* calls answered with error records, in any order
NextRemoteError ==
    \/ run
    \/ Running /\ Len(calls) < MaxCalls /\ send(Root, CallMethod, EmptyDict)
    \/ \E msg \in ErrorReplies : Running /\ dispatch_reply(msg)
    \/ \E k \in ReplyIds : Running /\ dispatch_reply(ResultReply(k, EmptyDict))
    \/ \E n \in DOMAIN calls : \E done \in {"callback", "transport"} : Resume(n, done)

SpecRemoteError == Init /\ [][NextRemoteError]_vars

(* ------------------------------ teardown ------------------------------- *)
\* Connection.stop_async up to its await of wait_until_stopped (lines 234-236)
stop_async ==
    /\ Running
    /\ stop_task = Idle
    /\ stop_task' = Awaiting
    /\ transport' = "stop_requested"
    /\ UNCHANGED <<route_handler, shadowed, enter_task, known, _waiting_for_object, child_ws, disposal, zoneVars, fibers, wire, graphVars, callVars, eventVars, traceVars, connectVars>>

\* Connection.cleanup (lines 239-244): the init task is cancelled when it is
\* not done; the pending-call table is not touched
cleanup(cs) ==
    [n \in DOMAIN cs |->
        IF sent[n].method = "initialize" /\ cs[n].task = Awaiting
        THEN [cs[n] EXCEPT !.task = TaskCancelled(cs[n].future = Pending)]
        ELSE cs[n]]

\* Connection.stop_sync up to its wait for the transport (lines 228-231): the
\* caller asks the transport to stop and switches to the dispatcher fiber
stop_sync ==
    /\ Running
    /\ _is_sync
    /\ stop_task = Idle
    /\ stop_task' = Awaiting
    /\ transport' = "stop_requested"
    /\ UNCHANGED <<route_handler, shadowed, enter_task, known, _waiting_for_object, child_ws, disposal, zoneVars, fibers, wire, graphVars, callVars, eventVars, traceVars, connectVars>>

\* PlaywrightContextManager.__exit__ (lines 80-82): the caller asks the
\* transport to stop and switches to the dispatcher fiber, which runs
\* Transport.run to its end
Switched == [st |-> "switched"]
__exit__ ==
    /\ Running
    /\ _is_sync
    /\ stop_task = Idle
    /\ stop_task' = Switched
    /\ transport' = "stop_requested"
    /\ UNCHANGED <<route_handler, shadowed, enter_task, known, _waiting_for_object, child_ws, disposal, zoneVars, fibers, wire, graphVars, callVars, eventVars, traceVars, connectVars>>

\* the transport, asked to stop, ends its run and reports stopped
transport_stops ==
    /\ transport = "stop_requested"
    /\ transport' = "stopped"
    /\ UNCHANGED <<route_handler, shadowed, enter_task, known, _waiting_for_object, child_ws, disposal, zoneVars, fibers, wire, stop_task, graphVars, callVars, eventVars, traceVars,
                   connectVars>>

\* the dispatcher fiber has ended: __exit__ returns
exit_resume ==
    /\ stop_task = Switched
    /\ transport = "stopped"
    /\ stop_task' = Returned(None)
    /\ UNCHANGED <<auxVars, zoneVars, fibers, wire, graphVars, callVars, eventVars, traceVars, connectVars>>

\* a stop that runs cleanup without waiting for the transport
stop_resume_unordered ==
    /\ stop_task = Awaiting
    /\ stop_task' = Returned(None)
    /\ calls' = cleanup(calls)
    /\ UNCHANGED <<auxVars, zoneVars, fibers, wire, graphVars, _last_id, _callbacks, sent, _error, on_error_future,
                   eventVars, traceVars, connectVars>>

\* the transport has stopped: stop_async and stop_sync go on with cleanup
\* (lines 231-232 and 236-237)
stop_async_resume ==
    /\ stop_task = Awaiting
    /\ transport = "stopped"
    /\ stop_task' = Returned(None)
    /\ calls' = cleanup(calls)
    /\ UNCHANGED <<auxVars, zoneVars, fibers, wire, graphVars, _last_id, _callbacks, sent, _error, on_error_future,
                   eventVars, traceVars, connectVars>>

Closed == stop_task = Returned(None)

TeardownReplies(id) ==
    {ResultReply(id, EmptyDict), ResultReply(id, Dict("playwright" :> Ref(RootGuid)))}

\* the server answers a call that is in the table
Reply ==
    \E k \in DOMAIN _callbacks : \E msg \in TeardownReplies(k) :
        ~Closed /\ dispatch_reply(msg)
\* a reply whose id is not in the table
StrayReply ==
    \E k \in ReplyIds \ DOMAIN _callbacks :
        Running /\ ~Closed /\ dispatch_reply(ResultReply(k, EmptyDict))
Cancelled_cb == \E n \in DOMAIN calls : cb(n)
CallerResumes ==
    \E n \in DOMAIN calls : \E done \in {"callback", "transport"} :
        IF sent[n].method = "initialize" THEN init_resume(n, done) ELSE Resume(n, done)

\* calls in flight while the connection is stopped
NextTeardown ==
    \/ run
    \/ ~Closed /\ init
    \/ Running /\ ~Closed /\ Len(calls) < MaxCalls /\ send(Root, CallMethod, EmptyDict)
    \/ Reply
    \/ StrayReply
    \/ Cancelled_cb
    \/ CallerResumes
    \/ stop_async
    \/ transport_stops
    \/ stop_async_resume

\* the loop runs every callback and every resumed task that is due, the
\* transport stops once asked to, the server answers the calls it receives
SpecTeardown ==
    /\ Init
    /\ [][NextTeardown]_vars
    /\ WF_vars(CallerResumes)
    /\ WF_vars(Cancelled_cb)
    /\ WF_vars(transport_stops)
    /\ WF_vars(stop_async_resume)
    /\ WF_vars(Reply)

\* the objects the teardown closes: a browser and its context
BrowserObj == <<FirstGuid, 1>>
ContextObj == <<SecondGuid, 1>>
TaskOver(n) == n \in DOMAIN calls /\ calls[n].task.st = "returned"
\* context.close() and browser.close(), one after the other, on one task
close_context ==
    /\ {BrowserObj, ContextObj} \subseteq Range(_objects)
    /\ Len(calls) = 0
    /\ send(ContextObj, "close", EmptyDict)
close_browser ==
    /\ Len(calls) = 1
    /\ TaskOver(1)
    /\ send(BrowserObj, "close", EmptyDict)
\* playwright.stop() once both have returned
Stops == stop_async \/ stop_sync \/ __exit__
stop_playwright == Len(calls) = 2 /\ TaskOver(2) /\ Stops
\* the server creates the two objects, answers every call it has received and
\* disposes of an object once its close has been asked for
StopSetup ==
    \E msg \in {CreateMsg(RootGuid, "Page", FirstGuid), CreateMsg(FirstGuid, "Page", SecondGuid)} :
        Running /\ Fresh(msg) /\ msg.guid \in DOMAIN _objects /\ dispatch(msg)
StopReply ==
    \E k \in DOMAIN _callbacks : transport # "stopped" /\ dispatch(ResultReply(k, EmptyDict))
StopDisposes ==
    \E n \in DOMAIN sent :
        /\ transport # "stopped"
        /\ sent[n].guid \in DOMAIN _objects
        /\ dispatch(DisposeMsg(sent[n].guid))
StopListens ==
    \E o \in {BrowserObj, ContextObj} : Registrations < MaxListeners /\ on(o, "close", "h1")
StopEvents == \E n \in DOMAIN sent : transport # "stopped" /\ dispatch(EventMsg(sent[n].guid, "close", None))
StopResumes == \E n \in DOMAIN calls : Resume(n, "callback")

\* close context, close browser, stop playwright
NextStop ==
    \/ run
    \/ run_as_sync
    \/ StopSetup
    \/ StopListens
    \/ close_context
    \/ close_browser
    \/ stop_playwright
    \/ StopReply
    \/ StopDisposes
    \/ StopEvents
    \/ StopResumes
    \/ transport_stops
    \/ stop_async_resume
    \/ exit_resume

\* the server answers the calls it receives, the loop resumes every task
\* that is due, the script goes on, the transport stops once asked to
SpecStop ==
    /\ Init
    /\ [][NextStop]_vars
    /\ WF_vars(StopReply)
    /\ WF_vars(StopResumes)
    /\ WF_vars(close_browser)
    /\ WF_vars(stop_playwright)
    /\ WF_vars(transport_stops)
    /\ WF_vars(stop_async_resume)
    /\ WF_vars(exit_resume)

(* ----------------------- objects with known names --------------------- *)
\* the guid the Playwright object is announced under
KnownName == FirstGuid
Callbacks == {"cb1", "cb2"}

\* Connection.call_on_object_with_known_name (lines 246-249)
call_on_object_with_known_name(guid, callback) ==
    /\ _waiting_for_object' = Put(_waiting_for_object, guid, callback)
    /\ known' = IF guid \in Created THEN known
                ELSE [known EXCEPT !.registered = @ \cup {<<guid, callback>>}]
    /\ UNCHANGED <<route_handler, shadowed, enter_task, transport, child_ws, disposal, zoneVars, fibers, wire, stop_task, graphVars,
                   callVars, eventVars, traceVars, connectVars>>

\* PlaywrightContextManager.__enter__ up to its switch (lines 56-72): the
\* connection runs in blocking mode, callback_wrapper waits for the
\* Playwright object, the caller switches to the dispatcher fiber
__enter__ ==
    /\ Running
    /\ _is_sync
    /\ enter_task = Idle
    /\ _waiting_for_object' = Put(_waiting_for_object, KnownName, "callback_wrapper")
    /\ known' = IF KnownName \in Created THEN known
                ELSE [known EXCEPT !.registered = @ \cup {<<KnownName, "callback_wrapper">>}]
    /\ enter_task' = Switched
    /\ UNCHANGED <<route_handler, shadowed, transport, child_ws, disposal, zoneVars, fibers, wire, stop_task, graphVars,
                   callVars, eventVars, traceVars, connectVars>>

\* the driver goes away: Transport.run ends unasked
transport_ends ==
    /\ Running
    /\ transport = "open"
    /\ transport' = "stopped"
    /\ UNCHANGED <<route_handler, shadowed, enter_task, known, _waiting_for_object, child_ws, disposal, zoneVars, fibers, wire, stop_task,
                   graphVars, callVars, eventVars, traceVars, connectVars>>

\* the dispatcher fiber ends before callback_wrapper ran: the switch of line
\* 72 returns and line 73 reads an attribute that was never set
enter_fiber_ends ==
    /\ enter_task = Switched
    /\ transport = "stopped"
    /\ enter_task' = Raised("AttributeError")
    /\ UNCHANGED <<route_handler, shadowed, known, _waiting_for_object, transport, child_ws, disposal, zoneVars, fibers, wire, stop_task,
                   graphVars, callVars, eventVars, traceVars, connectVars>>

KnownRegisters ==
    \E g \in {KnownName, SecondGuid} : \E callback \in Callbacks :
        call_on_object_with_known_name(g, callback)
KnownNotified ==
    \E msg \in FirstCreateMsgs \cup SecondCreateMsgs \cup {DisposeMsg(FirstGuid)} :
        /\ Running
        /\ transport = "open"
        /\ msg.method = "__create__" => Fresh(msg)
        /\ dispatch(msg)

\* callbacks waiting for objects, the objects created and disposed of
NextKnown ==
    \/ run
    \/ run_as_sync
    \/ KnownRegisters
    \/ __enter__
    \/ KnownNotified
    \/ transport_ends
    \/ enter_fiber_ends

SpecKnown == Init /\ [][NextKnown]_vars

(* ---------------------------- route handlers --------------------------- *)
\* the values of times: left out, or a number
Number(n) == [t |-> "int", n |-> n]
Inf == [t |-> "inf"]
TimesArgs == {None} \cup {Number(n) : n \in 0..MaxTimes}
\* bool(times) on line 266
TimesGiven(times) == times # None /\ times.n # 0

\* RouteHandler.__init__ (lines 258-269)
RouteHandler__init__(times, is_sync) ==
    /\ route_handler = NotStarted
    /\ route_handler' = [st |-> "made", _times |-> IF TimesGiven(times) THEN times ELSE Inf,
                         _handled_count |-> 0, _is_sync |-> is_sync, times |-> times,
                         task |-> Idle, seen |-> <<>>]
    /\ UNCHANGED <<shadowed, enter_task, known, _waiting_for_object, transport, child_ws, disposal, zoneVars,
                   fibers, wire, stop_task, graphVars, callVars, eventVars, traceVars, connectVars>>

\* a will_expire that is true one invocation later
will_expire_late(rh) ==
    IF rh._times = Inf THEN FALSE ELSE rh._handled_count >= rh._times.n

\* RouteHandler.will_expire (lines 297-299); nothing finite reaches math.inf
will_expire(rh) ==
    IF rh._times = Inf THEN FALSE ELSE rh._handled_count + 1 >= rh._times.n

\* RouteHandler.handle up to its await (lines 274-294): impl counts the
\* invocation and calls the handler, on a fiber of its own in blocking mode
handle ==
    /\ route_handler.st = "made"
    /\ route_handler.task # Awaiting
    /\ route_handler._handled_count <= MaxTimes
    /\ route_handler' = [route_handler EXCEPT !._handled_count = @ + 1, !.task = Awaiting]
    /\ UNCHANGED <<shadowed, enter_task, known, _waiting_for_object, transport, child_ws, disposal, zoneVars,
                   fibers, wire, stop_task, graphVars, callVars, eventVars, traceVars, connectVars>>

\* the route was handled or fallen back from: handle returns which (line 295)
handle_resume(handled) ==
    /\ route_handler.st = "made"
    /\ route_handler.task = Awaiting
    /\ route_handler' = [route_handler EXCEPT !.task = Returned(handled)]
    /\ UNCHANGED <<shadowed, enter_task, known, _waiting_for_object, transport, child_ws, disposal, zoneVars,
                   fibers, wire, stop_task, graphVars, callVars, eventVars, traceVars, connectVars>>

\* the property is read: the count it was read at and the value it had
read_will_expire ==
    /\ route_handler.st = "made"
    /\ route_handler' = [route_handler EXCEPT
                             !.seen = <<route_handler._handled_count, will_expire(route_handler)>>]
    /\ UNCHANGED <<shadowed, enter_task, known, _waiting_for_object, transport, child_ws, disposal, zoneVars,
                   fibers, wire, stop_task, graphVars, callVars, eventVars, traceVars, connectVars>>

\* one handler, made with any times, invoked and asked whether it expires
NextRoute ==
    \/ \E times \in TimesArgs : \E is_sync \in BOOLEAN : RouteHandler__init__(times, is_sync)
    \/ handle
    \/ \E handled \in BOOLEAN : handle_resume(handled)
    \/ read_will_expire

SpecRoute == Init /\ [][NextRoute]_vars

(* ------------------------- child connections -------------------------- *)
\* Connection.cleanup of the connection that issued connect (lines 239-244):
\* the transports of the connections in _child_ws_connections are disposed
owner_cleanup ==
    /\ connect_task # Idle
    /\ ~child_ws.owner_cleaned
    /\ child_ws' = [child_ws EXCEPT !.owner_cleaned = TRUE,
                                    !.disposed = @ \/ child_ws.tracked]
    /\ UNCHANGED <<route_handler, shadowed, enter_task, known, _waiting_for_object, transport, disposal, zoneVars, fibers, wire, stop_task, graphVars, callVars, eventVars, traceVars,
                   connectVars>>

\* the transport of the opened connection closes and emits "close": the
\* handler of lines 243-249, when registered, runs Connection.cleanup. A close
\* while connect still waits reaches it through on_error_future instead
transport_close ==
    /\ connect_task.st \in {"returned", "raised"}
    /\ ~child_ws.closed
    /\ child_ws' = [child_ws EXCEPT !.closed = TRUE, !.on_close = FALSE,
                                    !.cleaned = child_ws.on_close]
    /\ calls' = IF child_ws.on_close THEN cleanup(calls) ELSE calls
    /\ UNCHANGED <<route_handler, shadowed, enter_task, known, _waiting_for_object, transport, disposal, zoneVars, fibers, wire, stop_task, graphVars, _last_id, _callbacks, sent, _error,
                   on_error_future, eventVars, traceVars, connectVars>>

\* the opened connection from its creation to its teardown
NextChild ==
    \/ connect
    \/ connect_task # Idle /\ run
    \/ init
    \/ \E msg \in ConnectCreateMsgs :
          Running /\ msg.params.guid \notin Created /\ dispatch_create(msg)
    \/ \E n \in DOMAIN calls : \E msg \in InitReplies(calls[n].id) :
          Running /\ msg.id \in DOMAIN _callbacks /\ dispatch_reply(msg)
    \/ \E n \in DOMAIN calls : \E done \in {"callback", "transport"} : init_resume(n, done)
    \/ throw_on_timeout
    \/ \E d \in {"transport", "playwright", "timeout"} : connect_resume(d)
    \/ owner_cleanup
    \/ transport_close

SpecChild == Init /\ [][NextChild]_vars

(* --------------------------- graph notions ----------------------------- *)
Children(h, p) == Range(h[p].objects)
RECURSIVE Closure(_, _)
Closure(h, S) ==
    LET N == S \cup UNION {Children(h, p) : p \in S}
    IN IF N = S THEN S ELSE Closure(h, N)
\* o and everything below it by child sets
Subtree(h, o) == Closure(h, {o})
Live == Range(_objects)

IsNote(m) == "method" \in DOMAIN m
IsReply(m) == "id" \in DOMAIN m

TypeOK == raised \in {NoExc, "KeyError", "AttributeError", CannotFind, UnknownChild}

(* ------------------------------- C2 ------------------------------------ *)
NoDanglingLink ==
    \A p \in DOMAIN heap : \A g \in DOMAIN heap[p].objects :
        LET c == heap[p].objects[g]
        IN heap[c].parent = p /\ g \in DOMAIN _objects /\ _objects[g] = c
\* (a disposed root leaves nothing to walk)
IndexIsTree == Live = IF Root \in Live THEN Subtree(heap, Root) ELSE {}

\* C2: after any sequence of create/adopt/dispose notifications (adoptions by
\* the child itself or by one of its descendants included) no child-set entry
\* dangles and the flat index holds exactly the objects reachable from the
\* root, each under the same id.
C2_GraphConsistent == NoDanglingLink /\ IndexIsTree

(* ------------------------------- C3 ------------------------------------ *)
DisposeEffect(g) ==
    LET o == _objects[g]
        Sub == Subtree(heap, o)
    IN /\ raised' = NoExc
       /\ removed' = Sub
       /\ Range(_objects') = Range(_objects) \ Sub
       /\ \A x \in DOMAIN _objects' : _objects'[x] = _objects[x]
       /\ \A s \in Sub : heap'[s].objects = <<>>
       /\ \A p \in DOMAIN heap' : Children(heap', p) \cap Sub = {}
       /\ \A p \in (DOMAIN heap) \ Sub :
              /\ Children(heap', p) = Children(heap, p) \ Sub
              /\ heap'[p].parent = heap[p].parent

\* C3: dispatching __dispose__ for a live object with K descendants removes
\* exactly those K+1 objects from the flat index and from their parents'
\* child sets, leaves each of them with an empty child set and touches no
\* object outside the subtree.
C3_DisposeCascade ==
    [][\A g \in AllGuids :
          (g \in DOMAIN _objects /\ dispatch_dispose(DisposeMsg(g))) => DisposeEffect(g)]_vars

\* a cascade over at least two objects has run and the object above survived
C3_Witness ==
    /\ IsNote(lastMsg) /\ lastMsg.method = "__dispose__"
    /\ raised = NoExc
    /\ Cardinality(removed) >= 2
    /\ Root \in Live

(* ------------------------------- C4 ------------------------------------ *)
AbsentDispose ==
    /\ IsNote(lastMsg) /\ lastMsg.method = "__dispose__"
    /\ lastMsg.guid \in Created
    /\ lastMsg.guid \notin DOMAIN _objects
    /\ removed = {}

IdsIncreasing ==
    /\ Len(sent) = Len(calls)
    /\ \A i \in DOMAIN calls : sent[i].id = calls[i].id /\ calls[i].id <= _last_id
    /\ \A i, j \in DOMAIN calls : i < j => calls[i].id < calls[j].id

Resolution(msg, n) ==
    IF "error" \in DOMAIN msg
    THEN Failed(parse_error(msg.error.error, n))
    ELSE Result(_replace_guids_with_channels(_objects, msg.result))

ResolvedByOwnReply ==
    \A n \in DOMAIN calls :
        (calls'[n].future # calls[n].future /\ calls'[n].future.st \in {"result", "exception"})
            => /\ IsReply(lastMsg')
               /\ lastMsg'.id = calls[n].id
               /\ calls'[n].future = Resolution(lastMsg', n)

\* C1: every call gets a correlation id greater than all earlier ones, and a
\* pending call is resolved only by the dispatch of the reply that carries
\* its own id, with that reply's result, whatever the order of the replies.
C1_Correlation == [](IdsIncreasing) /\ [][ResolvedByOwnReply]_vars

\* two calls were answered in the reverse of their issue order
C1_Witness ==
    /\ Len(calls) >= 2
    /\ calls[1].future.st = "result"
    /\ calls[2].future.st = "result"
    /\ IsReply(lastMsg) /\ lastMsg.id = calls[1].id

(* ------------------------------- C6 ------------------------------------ *)
\* C6: once the task that issued a call has ended cancelled while the call
\* was unresolved, the dispatch of the reply for that id sets no result or
\* error on any PendingCall, invokes no listener and does not raise.
C6_CancelledReplyDiscarded ==
    [][\A msg \in CancelReplies :
          (/\ msg.id \in DOMAIN _callbacks
           /\ calls[_callbacks[msg.id]].task.st = "cancelled"
           /\ dispatch_reply(msg))
              => (UNCHANGED calls /\ raised' = NoExc /\ invoked' = <<>>)]_vars

(* ------------------------------- C8 ------------------------------------ *)
RefGuid(msg) == msg.result.d["browser"].d["guid"].s

\* C8: when guid g is in the registry (its create notification was
\* dispatched) at the time the reply {id: k, result: {browser: {guid: g}}}
\* is dispatched, call k is resolved with the channel of the object
\* registered under g, and the caller of Channel.send gets that channel.
C8_ProxyNotRecord ==
    [][/\ \A msg \in RefReplies :
             (/\ msg.id \in DOMAIN _callbacks
              /\ calls[_callbacks[msg.id]].future = Pending
              /\ RefGuid(msg) \in DOMAIN _objects
              /\ dispatch_reply(msg))
                 => calls'[_callbacks[msg.id]].future =
                        Result(Dict("browser" :> Chan(_objects[RefGuid(msg)])))
       /\ \A n \in DOMAIN calls : \A g \in Guids :
             (/\ calls[n].kind = "send"
              /\ g \in DOMAIN _objects
              /\ calls[n].future = Result(Dict("browser" :> Chan(_objects[g])))
              /\ Resume(n, "callback"))
                 => calls'[n].task = Returned(Chan(_objects[g]))]_vars

\* a caller of Channel.send got the channel of a created object
C8_Witness ==
    \E n \in DOMAIN calls : \E g \in Guids :
        /\ calls[n].kind = "send"
        /\ g \in DOMAIN _objects
        /\ calls[n].task = Returned(Chan(_objects[g]))

(* ------------------------------- C9 ------------------------------------ *)
HandlersInvoked == [i \in DOMAIN invoked |-> invoked[i].h]
EventToLive ==
    /\ IsNote(lastMsg)
    /\ lastMsg.method \in Events
    /\ lastMsg.guid \in DOMAIN _objects

\* C9 as stated: an event notification for a live object invokes every
\* listener registered for that object and method exactly once, in
\* registration order.
C9_EveryListenerOnce ==
    [][\A msg \in EventMsgs :
          (msg.guid \in DOMAIN _objects /\ dispatch_event(msg))
              => [i \in DOMAIN invoked' |-> invoked'[i].h]
                     = ListenersOf(_objects[msg.guid], msg.method)]_vars

\* the registered handlers up to and including the first one that raises
UpToFirstRaise(ls) ==
    LET bad == {i \in DOMAIN ls : ls[i] \in RaisingHandlers}
    IN IF bad = {} THEN ls
       ELSE SubSeq(ls, 1, CHOOSE i \in bad : \A j \in bad : i <= j)

\* C9: an event notification for a live object invokes the listeners
\* registered for that object and method once each, in registration order,
\* up to and including the first listener that raises; the listeners after
\* it, and the listeners of other methods and objects, are not invoked.
\* With no listener registered nothing changes and nothing is raised.
C9_ListenersInOrder ==
    [][\A msg \in EventMsgs :
          (msg.guid \in DOMAIN _objects /\ dispatch_event(msg))
              => LET ls == ListenersOf(_objects[msg.guid], msg.method)
                 IN /\ [i \in DOMAIN invoked' |-> invoked'[i].h] = UpToFirstRaise(ls)
                    /\ raised' = NoExc
                    /\ ls = <<>> => /\ invoked' = <<>>
                                    /\ UNCHANGED <<graphVars, callVars, eventVars>>]_vars

\* two listeners of the addressed object and method ran in registration
\* order (other slots and orders are reachable as well)
C9_Witness ==
    /\ EventToLive
    /\ Len(invoked) = 2
    /\ HandlersInvoked = ListenersOf(_objects[lastMsg.guid], lastMsg.method)

(* ------------------------------- C10 ----------------------------------- *)
IssuedBySend ==
    /\ Len(calls') = Len(calls) + 1
    /\ calls'[Len(calls')].kind \in {"send", "send_return_as_dict"}

\* C10: a call through Channel.send / send_return_as_dict issued while an
\* error is stored raises exactly that error and clears it; a call issued
\* while none is stored raises nothing.
C10_ErrorSurfacedOnce ==
    [][IssuedBySend =>
          /\ _error' = NoError
          /\ calls'[Len(calls')].task =
                 IF _error # NoError THEN Raised(_error) ELSE Awaiting]_vars

\* a call raised the stored listener fault and the next call did not
C10_Witness ==
    /\ Len(calls) >= 2
    /\ calls[1].kind \in {"send", "send_return_as_dict"}
    /\ calls[1].task = Raised(ListenerError("hx"))
    /\ calls[2].kind \in {"send", "send_return_as_dict"}
    /\ calls[2].task = Awaiting
    /\ IsNote(lastMsg) /\ Len(invoked) = 1
    /\ _error = NoError

(* ------------------------------- C5 ------------------------------------ *)
RECURSIVE Embeds(_)
Embeds(p) ==
    IF p.t = "chan" THEN p.o \in Live
    ELSE IF p.t = "list" THEN \E i \in DOMAIN p.l : Embeds(p.l[i])
    ELSE IF p.t = "dict" THEN \E k \in DOMAIN p.d : Embeds(p.d[k])
    ELSE FALSE

\* e carries {guid: o.guid} wherever p carries the channel of o
RECURSIVE EncodedAt(_, _)
EncodedAt(p, e) ==
    IF p.t = "chan" THEN e = Ref(p.o[1])
    ELSE IF p.t = "list"
    THEN e.t = "list" /\ DOMAIN e.l = DOMAIN p.l /\ \A i \in DOMAIN p.l : EncodedAt(p.l[i], e.l[i])
    ELSE IF p.t = "dict"
    THEN e.t = "dict" /\ DOMAIN e.d = DOMAIN p.d /\ \A k \in DOMAIN p.d : EncodedAt(p.d[k], e.d[k])
    ELSE TRUE

\* v carries the channel of o wherever p carries the channel of a live o
RECURSIVE DecodedAt(_, _)
DecodedAt(p, v) ==
    IF ~Embeds(p) THEN TRUE
    ELSE IF p.t = "chan" THEN v = Chan(p.o)
    ELSE IF p.t = "list"
    THEN v.t = "list" /\ DOMAIN v.l = DOMAIN p.l /\ \A i \in DOMAIN p.l : DecodedAt(p.l[i], v.l[i])
    ELSE v.t = "dict" /\ DOMAIN v.d = DOMAIN p.d /\ \A k \in DOMAIN p.d : DecodedAt(p.d[k], v.d[k])

Replied(n) == calls[n].id \notin DOMAIN _callbacks

\* C5: the parameters of a call are sent with {guid: o.guid} at every
\* position that holds the channel of o, and once the reply that carries
\* the same payload is dispatched the call's result holds the channel of o
\* (the instance in the index) at every position of a live o.
C5_RoundTrip ==
    \A n \in DOMAIN calls :
        /\ EncodedAt(calls[n].params, sent[n].params)
        /\ Replied(n) => /\ calls[n].future.st = "result"
                         /\ DecodedAt(calls[n].params, calls[n].future.v)

(* ------------------------------- C7 ------------------------------------ *)
TimedOut == connect_task.st = "raised" /\ timeout_future.st = "exception"

\* C7: when the deadline of BrowserType.connect expires before the
\* Playwright object arrives, the caller receives a TimeoutError, and the
\* "initialize" reply that arrives afterwards is discarded without error.
C7_DeadlineIsTimeoutError ==
    /\ (TimedOut /\ connect_task.e = timeout_future.e) => connect_task.e.cls = "TimeoutError"
    /\ TimedOut => \A n \in DOMAIN calls : calls[n].task # Raised(InvalidStateError)

(* ------------------------------- C11 ----------------------------------- *)
Issued == Len(calls') = Len(calls) + 1
Faulty(ls) == \E i \in DOMAIN ls : ls[i] \in RaisingHandlers
FirstFault(ls) == ListenerError(UpToFirstRaise(ls)[Len(UpToFirstRaise(ls))])

\* C11 as stated: the stored exception is raised by the next outgoing call,
\* whichever of the three kinds of call it is.
C11_NextCallRaises ==
    [][(Issued /\ _error # NoError)
          => calls'[Len(calls')].task = Raised(_error)]_vars

\* C11: an event notification whose listener raises leaves dispatch
\* normally with the exception stored in _error; the next call through
\* send / send_return_as_dict raises the stored exception, while a call
\* through send_no_reply neither raises nor clears it.
C11_ListenerFaultDeferred ==
    [][/\ \A msg \in CloseMsgs :
             (dispatch_event(msg) /\ Faulty(ListenersOf(Root, msg.method)))
                 => /\ raised' = NoExc
                    /\ _error' = FirstFault(ListenersOf(Root, msg.method))
       /\ (Issued /\ _error # NoError)
             => IF calls'[Len(calls')].kind = "send_no_reply"
                THEN calls'[Len(calls')].task = RunningOn /\ _error' = _error
                ELSE calls'[Len(calls')].task = Raised(_error)]_vars

\* a listener fault was stored, a send_no_reply went out without raising
\* and the call after it raised the fault
C11_Witness ==
    /\ Len(calls) >= 2
    /\ IsNote(lastMsg) /\ raised = NoExc /\ Len(invoked) >= 1
    /\ calls[1].kind = "send_no_reply" /\ calls[1].task = RunningOn
    /\ calls[2].task = Raised(ListenerError(invoked[Len(invoked)].h))

(* ------------------------------- C12 ----------------------------------- *)
ProtocolFault == raised # NoExc
NoneAwaiting == \A n \in DOMAIN calls : calls[n].task # Awaiting

\* C12: once dispatch has raised a protocol fault or the connection has
\* been stopped and cleaned up, every caller still awaiting a call is
\* eventually resumed.
C12_NoCallHangs == (Closed \/ ProtocolFault) ~> NoneAwaiting

(* ------------------------------- C13 ----------------------------------- *)
ReplyEffect(msg) ==
    IF msg.id \in DOMAIN _callbacks
    THEN /\ _callbacks' = Remove(_callbacks, msg.id)
         /\ raised' = NoExc
         /\ \A n \in DOMAIN calls : calls[n].id # msg.id => calls'[n] = calls[n]
    ELSE raised' = "KeyError" /\ UNCHANGED <<_callbacks, calls>>

RemovedByOwnReply ==
    /\ \A k \in DOMAIN _callbacks \ DOMAIN _callbacks' : IsReply(lastMsg') /\ lastMsg'.id = k
    /\ \A k \in DOMAIN _callbacks' \ DOMAIN _callbacks : k > _last_id

ResumedOnce ==
    \A n \in DOMAIN calls :
        /\ calls[n].task # Awaiting => calls'[n].task = calls[n].task
        /\ calls'[n].task # calls[n].task => calls[n].id \notin DOMAIN _callbacks

\* C13: a reply removes the entry of its own id from the pending table and
\* no other; an entry leaves the table only that way and an id once removed
\* is never entered again; a caller is resumed once, after its entry was
\* removed; a reply whose id is not in the table raises KeyError and
\* changes neither the table nor any call.
C13_RemovedOnce ==
    [][/\ \A msg \in CallReplies : dispatch_reply(msg) => ReplyEffect(msg)
       /\ RemovedByOwnReply
       /\ ResumedOnce]_vars

\* the first call was answered and resumed, a second reply with its id
\* raised, and the other call is still in the table
C13_Witness ==
    /\ Len(calls) >= 2
    /\ calls[1].task.st = "returned"
    /\ IsReply(lastMsg) /\ lastMsg.id = calls[1].id /\ raised = "KeyError"
    /\ calls[2].id \in DOMAIN _callbacks
    /\ calls[2].future = Pending

(* ------------------------------- C14 ----------------------------------- *)
Answered(n, kind) ==
    /\ calls[n].kind = kind
    /\ calls[n].future.st = "result"
    /\ calls[n].task # Awaiting

IsRecord(v) == v.t = "dict"
Fields(v) == Cardinality(DOMAIN v.d)
TheField(v) == v.d[CHOOSE k \in DOMAIN v.d : TRUE]

\* C14: a call through Channel.send that was answered with a result
\* returns the field's value for a one-field record, nothing for an empty
\* record and the result itself otherwise; it does not raise.
C14_SendUnwraps ==
    \A n \in DOMAIN calls :
        Answered(n, "send") =>
            LET v == calls[n].future.v
            IN calls[n].task =
                  IF IsRecord(v) /\ Fields(v) = 1 THEN Returned(TheField(v))
                  ELSE IF v = EmptyDict THEN Returned(None)
                  ELSE Returned(v)

(* ------------------------------- C15 ----------------------------------- *)
\* C15 as stated: a call through send_return_as_dict answered with a record
\* of zero, one or several fields returns that record.
C15_ReturnsEveryRecord ==
    \A n \in DOMAIN calls :
        (Answered(n, "send_return_as_dict") /\ IsRecord(calls[n].future.v))
            => calls[n].task = Returned(calls[n].future.v)

\* C15: a call through send_return_as_dict answered with a record of one
\* or several fields returns that decoded record, not a field of it; a
\* record without fields comes back as nothing.
C15_ReturnsRecord ==
    \A n \in DOMAIN calls :
        (Answered(n, "send_return_as_dict") /\ IsRecord(calls[n].future.v))
            => calls[n].task = IF Fields(calls[n].future.v) = 0 THEN Returned(None)
                               ELSE Returned(calls[n].future.v)

\* one call returned a one-field record whole, another a two-field record
C15_Witness ==
    /\ Len(calls) >= 2
    /\ Answered(1, "send_return_as_dict") /\ calls[1].task = Returned(OneField)
    /\ Answered(2, "send_return_as_dict") /\ calls[2].task = Returned(TwoFields)

(* ------------------------------- C16 ----------------------------------- *)
\* C16: a call through Channel.send_no_reply hands one encoded request to
\* the transport and leaves the pending-call table as it was.
C16_NoPendingCall ==
    [][(Issued /\ calls'[Len(calls')].kind = "send_no_reply")
          => /\ Len(sent') = Len(sent) + 1
             /\ sent'[Len(sent')].params =
                    _replace_channels_with_guids(calls'[Len(calls')].params)
             /\ _callbacks' = _callbacks]_vars

(* ------------------------------- C17 ----------------------------------- *)
Absent(guid) == guid \notin DOMAIN _objects
FailsUnchanged == raised' # NoExc /\ UNCHANGED <<heap, _objects, _callbacks>>

\* C17: a __create__ notification whose parent id is not in the index, and
\* an __adopt__ notification whose new-parent id or child id is not in the
\* index, make dispatch raise and leave the index, the child sets, the
\* parent references and the pending-call table as they were.
C17_UnknownIdFails ==
    [][/\ \A msg \in CreateMsgs :
             (Absent(msg.guid) /\ dispatch_create(msg)) => FailsUnchanged
       /\ \A msg \in AdoptMsgs :
             ((Absent(msg.guid) \/ Absent(msg.params.guid)) /\ dispatch_adopt(msg))
                 => FailsUnchanged]_vars

\* a create under a parent that was disposed raised, with another object
\* still in the index
C17_Witness ==
    /\ IsNote(lastMsg) /\ lastMsg.method = "__create__"
    /\ lastMsg.guid \in Created /\ Absent(lastMsg.guid)
    /\ raised = "KeyError"
    /\ Root \in Live

(* ------------------------------- C18 ----------------------------------- *)
IsPlaceholder(guid) == ~Absent(guid) /\ heap[_objects[guid]].cls = "DummyObject"

PlaceholderCreated(msg) ==
    LET g == msg.params.guid
        parent == _objects[msg.guid]
    IN /\ raised' = NoExc
       /\ g \in DOMAIN _objects'
       /\ _objects'[g] \notin DOMAIN heap
       /\ heap'[_objects'[g]].cls = "DummyObject"
       /\ heap'[_objects'[g]].parent = parent
       /\ g \in DOMAIN heap'[parent].objects
       /\ heap'[parent].objects[g] = _objects'[g]

\* C18: a __create__ with a type tag the factory does not know raises
\* nothing and registers a placeholder in the parent's child set and in the
\* index; an adopt, a dispose and an event addressed to the placeholder
\* are handled as for any object.
C18_PlaceholderForUnknownType ==
    [][/\ \A msg \in TypedCreateMsgs :
             (msg.params.type \notin KnownTypes /\ ~Absent(msg.guid) /\ dispatch_create(msg))
                 => PlaceholderCreated(msg)
       /\ (IsPlaceholder(FirstGuid) /\ dispatch_adopt(AdoptMsg(RootGuid, FirstGuid)))
             => /\ raised' = NoExc
                /\ heap'[_objects[FirstGuid]].parent = Root
                /\ heap'[Root].objects[FirstGuid] = _objects[FirstGuid]
       /\ (IsPlaceholder(FirstGuid) /\ dispatch_dispose(DisposeMsg(FirstGuid)))
             => /\ raised' = NoExc
                /\ removed' = {_objects[FirstGuid]}
                /\ FirstGuid \notin DOMAIN _objects'
                /\ FirstGuid \notin DOMAIN heap'[Root].objects
       /\ \A msg \in EventMsgs :
             (IsPlaceholder(msg.guid) /\ dispatch_event(msg))
                 => /\ raised' = NoExc
                    /\ [i \in DOMAIN invoked' |-> invoked'[i].h]
                          = UpToFirstRaise(ListenersOf(_objects[msg.guid], msg.method))]_vars

\* an event reached a listener of a placeholder object
C18_Witness ==
    /\ EventToLive
    /\ IsPlaceholder(lastMsg.guid)
    /\ Len(invoked) >= 1
    /\ HandlersInvoked = ListenersOf(_objects[lastMsg.guid], lastMsg.method)

(* ------------------------------- C19 ----------------------------------- *)
ErrorKind(name) == IF name = "TimeoutError" THEN "TimeoutError" ELSE "Error"
CallOf(k) == CHOOSE n \in DOMAIN calls : calls[n].id = k
Resolves(msg) ==
    /\ msg.id \in DOMAIN _callbacks
    /\ calls[CallOf(msg.id)].future = Pending
    /\ dispatch_reply(msg)
OnlyCall(n) == \A m \in DOMAIN calls : m # n => calls'[m] = calls[m]

\* C19 as stated: the error delivered to call k carries the message of the
\* error record as the server sent it.
C19_ServerMessage ==
    [][\A msg \in ErrorReplies :
          Resolves(msg)
              => LET n == CallOf(msg.id)
                 IN /\ calls'[n].future.st = "exception"
                    /\ calls'[n].future.e.cls = ErrorKind(msg.error.error.name)
                    /\ calls'[n].future.e.message = msg.error.error.message
                    /\ calls'[n].future.e.stack = n
                    /\ OnlyCall(n)]_vars

Patched(m) ==
    IF m = ToBeExpected THEN Msg(<<"t", "o", "_", "b", "e">>, <<Expected, "x">>)
    ELSE IF m = PassAccept THEN Msg(<<>>, <<accept_downloads>>)
    ELSE m

\* C19: an error reply for id k fails the pending call k and no other with
\* a TimeoutError when the record's name is "TimeoutError" and an Error
\* otherwise; the error carries the call site of call k and the server's
\* message after patch_error_message rewrote it.
C19_TypedError ==
    [][\A msg \in ErrorReplies :
          Resolves(msg)
              => LET n == CallOf(msg.id)
                 IN /\ calls'[n].future.st = "exception"
                    /\ calls'[n].future.e.cls = ErrorKind(msg.error.error.name)
                    /\ calls'[n].future.e.message = Patched(msg.error.error.message)
                    /\ calls'[n].future.e.stack = n
                    /\ OnlyCall(n)]_vars

\* the second call failed with a TimeoutError of its own call site while
\* the first call is still pending
C19_Witness ==
    /\ Len(calls) >= 2
    /\ calls[1].future = Pending
    /\ calls[2].future.st = "exception"
    /\ calls[2].future.e.cls = "TimeoutError"
    /\ calls[2].future.e.stack = 2
    /\ calls[2].task = Raised(calls[2].future.e)

(* ------------------------------- C20 ----------------------------------- *)
Holders(h, o) == {p \in DOMAIN h : o \in Range(h[p].objects)}

\* every live object but the root is in exactly one child set, the one of
\* its parent reference
OneParent == \A o \in Live \ {Root} : Holders(heap, o) = {heap[o].parent}

Adopted(msg) ==
    LET p == _objects[msg.guid]
        c == _objects[msg.params.guid]
    IN /\ heap'[c].parent = p
       /\ Holders(heap', c) = {p}
       /\ heap'[p].objects[msg.params.guid] = c

\* C20: at every state each live object other than the root is in the
\* child set of exactly one object, its parent reference; an __adopt__ of
\* c by p that does not raise leaves c in p's child set only, with
\* c.parent = p.
C20_ExactlyOneParent ==
    /\ []OneParent
    /\ [][\A msg \in AdoptMsgs :
             (~Absent(msg.guid) /\ ~Absent(msg.params.guid)
                 /\ dispatch_adopt(msg) /\ raised' = NoExc) => Adopted(msg)]_vars

\* an adoption moved an object under a parent other than the root
C20_Witness ==
    /\ IsNote(lastMsg) /\ lastMsg.method = "__adopt__" /\ raised = NoExc
    /\ lastMsg.guid # RootGuid
    /\ lastMsg.guid # lastMsg.params.guid
    /\ ~Absent(lastMsg.guid) /\ ~Absent(lastMsg.params.guid)
    /\ heap[_objects[lastMsg.params.guid]].parent = _objects[lastMsg.guid]
    /\ Root \in Live

(* ------------------------------- C21 ----------------------------------- *)
HasParent(o) == heap[o].parent # NoParent
InParent(o) ==
    LET p == heap[o].parent
    IN heap[o].guid \in DOMAIN heap[p].objects /\ heap[p].objects[heap[o].guid] = o
InIndex(o) == heap[o].guid \in DOMAIN _objects /\ _objects[heap[o].guid] = o
Disposed == (DOMAIN heap) \ Live

\* C21 as stated: every object with a parent reference, live or disposed, is
\* in that parent's child set and in the flat index.
C21_AlwaysRegistered ==
    \A o \in DOMAIN heap : HasParent(o) => (InParent(o) /\ InIndex(o))

\* C21: every object in the flat index that has a parent reference is in
\* that parent's child set under its own id; a disposed object keeps its
\* parent reference and is in neither the child set nor the index.
C21_LiveRegistered ==
    /\ [](\A o \in DOMAIN heap :
             HasParent(o) => IF o \in Live THEN InParent(o) /\ InIndex(o)
                             ELSE ~InParent(o) /\ ~InIndex(o))
    /\ [][\A o \in removed' : heap'[o].parent = heap[o].parent]_vars

\* one object was disposed with its parent reference still set while
\* another one is live under a parent that is not the root
C21_Witness ==
    /\ \E o \in Disposed : HasParent(o) /\ heap[o].parent \in Live
    /\ \E o \in Live : HasParent(o) /\ heap[o].parent # Root /\ InParent(o)

(* ------------------------------- C22 ----------------------------------- *)
\* the objects held by the flat index or by the child set of an indexed object
Held == Live \cup UNION {Children(heap, p) : p \in Live}
UniqueHeld == \A x, y \in Held : heap[x].guid = heap[y].guid => x = y
\* an id that left the index (only _dispose takes one out) stays out
DisposedStaysGone ==
    \A g \in Guids : (g \in Created /\ g \notin DOMAIN _objects) => g \notin DOMAIN _objects'

\* C22: whatever create/adopt/dispose notifications dispatch accepts, no
\* two distinct objects held by the flat index or by a child set share an
\* identifier, and an identifier that was disposed never names another
\* object afterwards.
C22_IdsUnique == []UniqueHeld /\ [][DisposedStaysGone]_vars

(* ------------------------------- C23 ----------------------------------- *)
\* C23: an application event addressed to an id that is not in the index
\* makes dispatch raise "Cannot find object"; no listener is invoked, no
\* error is stored, and the index, the child sets, the pending-call table
\* and the calls stay as they were.
C23_StrayEventRaises ==
    [][\A msg \in StrayMsgs :
          (Absent(msg.guid) /\ dispatch_event(msg))
              => /\ raised' = CannotFind
                 /\ invoked' = <<>>
                 /\ UNCHANGED <<heap, _objects, _callbacks, calls, _error, listeners>>]_vars

\* an event for a disposed object that has a listener raised out of
\* dispatch while a call was pending
C23_Witness ==
    /\ IsNote(lastMsg) /\ lastMsg.method = "close"
    /\ lastMsg.guid \in Created /\ Absent(lastMsg.guid)
    /\ \E o \in Disposed : heap[o].guid = lastMsg.guid /\ ListenersOf(o, "close") # <<>>
    /\ raised = CannotFind
    /\ invoked = <<>>
    /\ DOMAIN _callbacks # {}

(* ------------------------------- C24 ----------------------------------- *)
\* the id named an object that has been disposed
Gone(guid) == guid \in Created /\ Absent(guid)
GoneMsgs == StrayMsgs \cup SecondCreateMsgs \cup ByFirstMsgs \cup {DisposeMsg(FirstGuid)}
Untouched == UNCHANGED <<heap, _objects, _callbacks, calls, _error, listeners>>

Effect(msg) ==
    IF IsReply(msg)
    THEN LET n == CallOf(msg.id)
         IN /\ msg.id \notin DOMAIN _callbacks'
            /\ calls'[n].future = Resolution(msg, n)
    ELSE IF msg.method = "__create__"
    THEN msg.params.guid \in DOMAIN _objects' /\ msg.params.guid \notin DOMAIN _objects
    ELSE [i \in DOMAIN invoked' |-> invoked'[i].h] = ListenersOf(Root, msg.method)

\* a step that dispatches takes the oldest message not dispatched yet and
\* leaves its whole effect
OneWholeMessage ==
    Pumped' # Pumped =>
        /\ Pumped' = Pumped + 1
        /\ lastMsg' = wire[Pumped + 1]
        /\ Effect(wire[Pumped + 1])

ResolvedAt(k) == calls[CallOf(wire[k].id)].future # Pending
RepliesOnWire == {k \in DOMAIN wire : IsReply(wire[k])}
CreatedBefore(g, k) ==
    \E i \in 1..(k - 1) : IsNote(wire[i]) /\ wire[i].method = "__create__" /\ wire[i].params.guid = g

\* calls are resolved in the order of their replies on the wire
ArrivalOrder == \A i, j \in RepliesOnWire : (i < j /\ ResolvedAt(j)) => ResolvedAt(i)

\* a reply is decoded against the graph as the messages before it left it
DecodedInOrder ==
    \A k \in RepliesOnWire :
        ResolvedAt(k) =>
            calls[CallOf(wire[k].id)].future =
                Result(IF CreatedBefore(RefGuid(wire[k]), k)
                       THEN Dict("browser" :> Chan(<<RefGuid(wire[k]), 1>>))
                       ELSE wire[k].result)

\* C25: the messages on the transport are dispatched one at a time in the
\* order the server wrote them, each with its whole effect (graph mutation,
\* call resolution, listeners invoked) before the next one; calls are
\* resolved in the order of their replies, whatever the order they were
\* issued in, and a reply is decoded against the graph its predecessors
\* left.
C25_DeliveryOrder == [](ArrivalOrder /\ DecodedInOrder) /\ [][OneWholeMessage]_vars

\* the second call's reply was written first, after the create it refers
\* to: the second call is resolved with the channel, the first is pending
C25_Witness ==
    \E i, j \in RepliesOnWire :
        /\ i < j
        /\ wire[i].id > wire[j].id
        /\ Pumped = i
        /\ ResolvedAt(i) /\ ~ResolvedAt(j)
        /\ calls[CallOf(wire[i].id)].future = Result(Dict("browser" :> Chan(<<FirstGuid, 1>>)))

(* ------------------------------- C26 ----------------------------------- *)
\* no channel and no path anywhere in e
RECURSIVE OnWireOnly(_)
OnWireOnly(e) ==
    /\ e.t \notin {"chan", "path"}
    /\ e.t = "list" => \A i \in DOMAIN e.l : OnWireOnly(e.l[i])
    /\ e.t = "dict" => \A k \in DOMAIN e.d : OnWireOnly(e.d[k])

\* e is p with {guid} for each channel and the string form for each path
RECURSIVE Encodes(_, _)
Encodes(p, e) ==
    IF p.t = "chan" THEN e = Dict("guid" :> Str(heap[p.o].guid))
    ELSE IF p.t = "path" THEN e = Str(p.p)
    ELSE IF p.t = "list"
    THEN e.t = "list" /\ Len(e.l) = Len(p.l) /\ \A i \in DOMAIN p.l : Encodes(p.l[i], e.l[i])
    ELSE IF p.t = "dict"
    THEN e.t = "dict" /\ DOMAIN e.d = DOMAIN p.d /\ \A k \in DOMAIN p.d : Encodes(p.d[k], e.d[k])
    ELSE e = p

\* C26: the params of every request handed to the transport, by any of the
\* three kinds of call, hold no channel and no path at any depth of lists
\* and records: each channel is replaced by {guid}, each path by its
\* string, and every other value, key and list position is as the caller
\* gave it.
C26_ParamsEncoded ==
    \A n \in DOMAIN sent :
        /\ OnWireOnly(sent[n].params)
        /\ Encodes(calls[n].params, sent[n].params)

\* a request went out whose params held a path in a list and, after it in
\* the same list, a channel inside a record
C26_Witness ==
    \E n \in DOMAIN sent :
        /\ calls[n].params =
               Dict("args" :> List(<<PathV("/tmp/f"), Dict("k" :> Chan(<<FirstGuid, 1>>))>>))
        /\ sent[n].params =
               Dict("args" :> List(<<Str("/tmp/f"), Dict("k" :> Dict("guid" :> Str(FirstGuid)))>>))

(* ------------------------------- C27 ----------------------------------- *)
AnyBlocked == \E i \in DOMAIN fibers : fibers[i].st = "blocked"
NoneBlocked == \A i \in DOMAIN fibers : fibers[i].st = "done"
\* a notification is dispatched whose listeners include one that blocks
BlockingDispatch ==
    /\ \E msg \in FiberNotes : on_message(msg)
    /\ \E i \in DOMAIN ListenersOf(Root, lastMsg'.method) :
           ListenersOf(Root, lastMsg'.method)[i] \in BlockingHandlers
AllStarted ==
    /\ [i \in DOMAIN invoked' |-> invoked'[i].h] = ListenersOf(Root, lastMsg'.method)
    /\ Len(fibers') = Len(fibers) + 1
    /\ fibers'[Len(fibers')] = Fiber("hb", lastMsg'.method)
\* a message is dispatched while a listener of an earlier one is suspended
DispatchedWhileBlocked == AnyBlocked /\ pump
\* C27: in blocking mode, when a listener blocks on a call of its own, the
\* other listeners of the notification are started all the same, later
\* messages are dispatched while it is suspended, and the reply it waits for
\* reaches it: every blocked listener runs to its end.
C27_ListenersDoNotStall ==
    /\ [][BlockingDispatch => AllStarted]_vars
    /\ [](AnyBlocked /\ Pumped < Len(wire) => ENABLED pump)
    /\ (AnyBlocked ~> NoneBlocked)
\* the blocking listener came first, the one after it was started, and the
\* reply dispatched later let the blocked listener finish
C27_Witness ==
    /\ _is_sync
    /\ ListenersOf(Root, "close") = <<"hb", "h1">>
    /\ \E k \in DOMAIN wire : \E j \in DOMAIN wire :
           /\ k < j /\ j <= Pumped
           /\ wire[k] = EventMsg(RootGuid, "close", None)
           /\ "id" \in DOMAIN wire[j]
    /\ \E i \in DOMAIN fibers : fibers[i] = [Fiber("hb", "close") EXCEPT !.st = "done"]

(* ------------------------------- C28 ----------------------------------- *)
MetadataOf(a) == _extract_metadata_from_stack(a.st, a.is_internal)
\* while calls are active in a task its zone is the value the outermost one
\* set, and that one alone went past the check; with none active it is empty
ZoneOfTopLevel(c) ==
    IF Active(c) = {} THEN _api_zone[c] = None
    ELSE /\ _api_zone[c] = MetadataOf(wraps[c][Outermost(c)])
         /\ \A i \in Active(c) : wraps[c][i].top <=> i = Outermost(c)
\* a step taken inside an active call leaves the zone of the task as it was
NestedKeepsZone ==
    \A c \in Contexts :
        Active(c) # {} /\ Outermost(c) \in Active(c)' => _api_zone'[c] = _api_zone[c]
\* a request sent from a task carries the zone of the task: the value found
\* when nested, the value the call sets when it is the top-level one
RequestCarriesZone ==
    \A c \in Contexts :
        Len(wraps'[c]) > Len(wraps[c]) /\ Len(metas') > Len(metas)
            => metas'[Len(metas')] =
                   IF Active(c) # {} THEN _api_zone[c]
                   ELSE MetadataOf(wraps'[c][Len(wraps'[c])])
\* C28: the zone of a task is set by the wrap_api_call entered while it is
\* empty and by no other, nested calls leave it as it is, every request sent
\* inside carries it as metadata, and it is empty again once the top-level
\* call is over, returned or raised.
C28_ZoneDiscipline ==
    /\ [](\A c \in Contexts : ZoneOfTopLevel(c))
    /\ [][NestedKeepsZone /\ RequestCarriesZone]_vars
\* a top-level call of t1 raised after a request sent inside a nested call
\* carried its metadata, and the zone of t1 is empty again
C28_Witness ==
    /\ _api_zone["t1"] = None
    /\ \E i \in DOMAIN wraps["t1"] : \E j \in DOMAIN wraps["t1"] :
           /\ i < j
           /\ wraps["t1"][i].top /\ wraps["t1"][i].state = "raised"
           /\ wraps["t1"][i].call = 0
           /\ ~wraps["t1"][j].top /\ wraps["t1"][j].call # 0
           /\ wraps["t1"][j].st # wraps["t1"][i].st
           /\ metas[wraps["t1"][j].call] = MetadataOf(wraps["t1"][i])

(* ------------------------------- C29 ----------------------------------- *)
HasCaller(st) == \E k \in DOMAIN st : ~is_playwright_internal(st[k])
FirstCaller(st) ==
    CHOOSE k \in DOMAIN st :
        /\ ~is_playwright_internal(st[k])
        /\ \A j \in 1..(k - 1) : is_playwright_internal(st[j])
\* C29: the operation name recorded for a call that is not internal is the
\* name of the library frame right before the first caller frame of its
\* stack, whatever frames follow further out.
C29_FirstCallerName ==
    \A i \in Active("t1") :
        LET a == wraps["t1"][i]
        IN ~a.is_internal /\ HasCaller(a.st)
              => _api_zone["t1"].apiName = a.st[FirstCaller(a.st) - 1].method_name

(* ------------------------------- C30 ----------------------------------- *)
\* C30: issuing a call, dispatching a reply and dispatching an application
\* event leave the index, the child sets and the parent references as they
\* were; once the connection runs, a step that changes them is the dispatch
\* of a __create__, __adopt__ or __dispose__ notification.
C30_GraphFrame ==
    [][/\ (FrameCalls \/ FrameReply \/ FrameEvent) => UNCHANGED graphVars
       /\ (Running /\ graphVars' # graphVars)
              => lastMsg'.method \in {"__create__", "__adopt__", "__dispose__"}]_vars
\* a reply that names an object and an event with a listener were dispatched
\* and a call is out while the graph holds two objects under the root
C30_Witness ==
    /\ GuidNames[2] \in DOMAIN _objects /\ FirstGuid \in DOMAIN _objects
    /\ \E n \in DOMAIN calls : calls[n].future.st = "result"
    /\ \E n \in DOMAIN calls : calls[n].future = Pending
    /\ lastMsg = EventMsg(FirstGuid, "close", None)
    /\ invoked # <<>>

(* ------------------------------- C31 ----------------------------------- *)
ConnectOver == connect_task.st \in {"returned", "raised"}
\* connect failed before the Playwright object of the new connection arrived
FailedEarly == connect_task.st = "raised" /\ playwright_future.st # "result"
\* C31: the connection BrowserType.connect opens is a child of the issuing
\* connection once connect is over; its transport is disposed when connect
\* failed early and when the issuing connection has been cleaned up; its
\* cleanup has run when its transport has closed.
C31_ChildTornDown ==
    /\ ConnectOver => child_ws.tracked
    /\ FailedEarly => child_ws.disposed
    /\ (ConnectOver /\ child_ws.owner_cleaned) => child_ws.disposed
    /\ child_ws.closed => child_ws.cleaned

(* ------------------------------- C32 ----------------------------------- *)
\* an adoption can close a cycle: o is below one of its own children
OnCycle(o) == \E c \in Children(heap, o) : o \in Subtree(heap, c)
\* x is above y in the tree as it stood before the dispatch, and x is not
\* on a cycle
Above(x, y) == y \in Subtree(heap, x) /\ x \notin Subtree(heap, y) /\ ~OnCycle(x)
DisposeStep == \E msg \in DisposeMsgs : dispatch_dispose(msg)
\* C32 as stated: in the order in which a __dispose__ takes objects out of
\* their parents' child sets and of the index, every descendant comes before
\* its ancestor.
C32_PostOrder ==
    [][DisposeStep =>
          \A i \in DOMAIN disposal' : \A j \in DOMAIN disposal' :
              Above(disposal'[j], disposal'[i]) => i < j]_vars
\* C32 as the code has it: the object named by the notification leaves its
\* parent's child set and the index first, and each object leaves them before
\* any of its descendants does.
C32_PreOrder ==
    [][(DisposeStep /\ raised' = NoExc /\ lastMsg'.guid \in DOMAIN _objects) =>
          /\ disposal'[1] = _objects[lastMsg'.guid]
          /\ {disposal'[i] : i \in DOMAIN disposal'} = removed'
          /\ \A i \in DOMAIN disposal' : \A j \in DOMAIN disposal' :
                 Above(disposal'[i], disposal'[j]) => i < j]_vars
\* an object with a child was disposed: it left the index first
C32_Witness ==
    /\ Len(disposal) = 2
    /\ heap[disposal[2]].parent = disposal[1]
    /\ lastMsg = DisposeMsg(disposal[1][1])
    /\ raised = NoExc

(* ------------------------------- C33 ----------------------------------- *)
\* a call through Channel.send or send_return_as_dict raises the stored error
RaisesStored == IssuedBySend /\ _error # NoError /\ calls'[Len(calls')].task = Raised(_error)
\* C33: a call that raises the stored error hands no request to the
\* transport, takes no id and leaves no entry in the table of pending calls.
C33_FailsFast ==
    [][RaisesStored =>
          /\ sent' = sent
          /\ _last_id' = _last_id
          /\ DOMAIN _callbacks' = DOMAIN _callbacks]_vars

(* ------------------------------- C34 ----------------------------------- *)
StopRequested == stop_task # Idle
StopOver == stop_task = Returned(None)
\* C34: a stop that was requested completes, it completes (and runs cleanup)
\* only once the transport has stopped, and the teardown runs in its order:
\* the browser is closed after the context's close has returned, the stop is
\* asked for after the browser's close has returned, and a teardown that was
\* begun runs to the end of the stop.
C34_StopOrdered ==
    /\ [][(stop_task' # stop_task /\ StopOver') => transport = "stopped"]_vars
    /\ [](Len(sent) = 2 => TaskOver(1))
    /\ [](StopRequested => TaskOver(2))
    /\ (Len(sent) >= 1) ~> StopOver
\* the teardown ran to its end after both objects were closed
C34_Witness ==
    /\ StopOver
    /\ transport = "stopped"
    /\ Len(sent) = 2
    /\ sent[1].guid = SecondGuid /\ sent[2].guid = FirstGuid
    /\ TaskOver(1) /\ TaskOver(2)

(* ------------------------------- C35 ----------------------------------- *)
Times(callback, o) ==
    Cardinality({i \in DOMAIN known.called : known.called[i] = <<callback, o>>})
\* C35 as stated: every callback registered for a guid before its object
\* existed has been invoked exactly once, with that object, once the object
\* exists, and is registered no more.
C35_EveryCallback ==
    \A r \in known.registered :
        r[1] \in Created =>
            /\ Times(r[2], <<r[1], 1>>) = 1
            /\ r[1] \notin DOMAIN _waiting_for_object
EnterReturnsWrapper ==
    enter_task.st = "returned" =>
        /\ <<KnownName, 1>> \in DOMAIN heap
        /\ enter_task.v = SyncPlaywright(<<KnownName, 1>>)
\* C35 as the code has it: the dispatch that creates the object of guid g
\* invokes the callback registered last for g, once, with the new object, and
\* leaves no callback registered for g; no other step invokes a callback; and
\* __enter__ returns only once the Playwright object exists, with its wrapper.
C35_LatestCallback ==
    /\ [][\A g \in Guids :
             IF g \in Created' \ Created /\ g \in DOMAIN _waiting_for_object
             THEN /\ known'.called = Append(known.called, <<_waiting_for_object[g], _objects'[g]>>)
                  /\ lastMsg'.method = "__create__" /\ lastMsg'.params.guid = g
                  /\ g \notin DOMAIN _waiting_for_object'
             ELSE \A i \in DOMAIN known'.called :
                      known'.called[i][2][1] = g => i \in DOMAIN known.called]_vars
    /\ [](\A i \in DOMAIN known.called : \A j \in DOMAIN known.called :
              known.called[i][2] = known.called[j][2] => i = j)
    /\ []EnterReturnsWrapper
\* __enter__ returned the wrapper of the Playwright object
C35_Witness ==
    /\ enter_task = Returned(SyncPlaywright(<<KnownName, 1>>))
    /\ known.called = <<<<"callback_wrapper", <<KnownName, 1>>>>>>
    /\ KnownName \notin DOMAIN _waiting_for_object

(* ------------------------------- C36 ----------------------------------- *)
\* the caller of call n goes on after its wait
Wakes(n) ==
    /\ n \in DOMAIN calls
    /\ calls[n].task = Awaiting
    /\ calls'[n].task.st \in {"returned", "raised"}
\* a reply for a call whose future was cancelled is dispatched
LateReply ==
    /\ lastMsg' # lastMsg \/ _callbacks' # _callbacks
    /\ IsReply(lastMsg')
    /\ lastMsg'.id \in DOMAIN _callbacks
    /\ calls[_callbacks[lastMsg'.id]].future = Cancelled
\* C36: a caller that wakes with the transport's error future failed and its
\* reply not dispatched raises the transport error and leaves its future
\* cancelled; a reply dispatched for a cancelled call is dropped without
\* raising; a caller that wakes with only its reply gets the reply's result.
C36_TransportErrorWins ==
    [][/\ \A n \in DOMAIN calls :
            Wakes(n) =>
               /\ (on_error_future.st = "exception" /\ calls[n].future = Pending) =>
                      /\ calls'[n].task = Raised(on_error_future.e)
                      /\ calls'[n].future = Cancelled
               /\ (on_error_future = Pending /\ calls[n].future.st = "result") =>
                      /\ calls'[n].task.st = "returned"
                      /\ calls'[n].task =
                             Unwrap(calls[n].future.v, calls[n].kind = "send_return_as_dict")
                      /\ calls'[n].future = calls[n].future
       /\ LateReply =>
              /\ raised' = NoExc
              /\ calls' = calls
              /\ lastMsg'.id \notin DOMAIN _callbacks']_vars
\* the transport failed under a pending call, the caller raised its error and
\* the reply that came afterwards was dropped
C36_Witness ==
    \E n \in DOMAIN calls :
        /\ calls[n].task = Raised(TransportError)
        /\ calls[n].future = Cancelled
        /\ IsReply(lastMsg) /\ lastMsg.id = calls[n].id
        /\ raised = NoExc
        /\ calls[n].id \notin DOMAIN _callbacks

(* ------------------------------- C37 ----------------------------------- *)
\* every record's guid, where it has one, is a string
RECURSIVE GuidsAreNames(_)
GuidsAreNames(p) ==
    IF p.t = "list" THEN \A i \in DOMAIN p.l : GuidsAreNames(p.l[i])
    ELSE IF p.t = "dict"
    THEN /\ "guid" \in DOMAIN p.d => p.d["guid"].t = "str"
         /\ \A k \in DOMAIN p.d : GuidsAreNames(p.d[k])
    ELSE TRUE
\* the payload with every record whose guid is in the registry replaced by
\* the object's channel and every other record kept, its fields resolved
RECURSIVE Resolved(_, _)
Resolved(objs, p) ==
    IF p.t = "list" THEN List([i \in DOMAIN p.l |-> Resolved(objs, p.l[i])])
    ELSE IF p.t = "dict"
    THEN IF "guid" \in DOMAIN p.d /\ p.d["guid"].t = "str" /\ p.d["guid"].s \in DOMAIN objs
         THEN Chan(objs[p.d["guid"].s])
         ELSE Dict([k \in DOMAIN p.d |-> Resolved(objs, p.d[k])])
    ELSE p
\* the payload names an object that is not in the registry
RECURSIVE Dangles(_, _)
Dangles(objs, p) ==
    IF p.t = "list" THEN \E i \in DOMAIN p.l : Dangles(objs, p.l[i])
    ELSE IF p.t = "dict"
    THEN \/ "guid" \in DOMAIN p.d /\ p.d["guid"].t = "str" /\ p.d["guid"].s \notin DOMAIN objs
         \/ \E k \in DOMAIN p.d : Dangles(objs, p.d[k])
    ELSE FALSE
ResultReplied == IsReply(lastMsg) /\ "result" \in DOMAIN lastMsg
FirstToRaise(ls) ==
    CHOOSE i \in DOMAIN ls :
        ls[i] \in RaisingHandlers /\ \A j \in 1..(i - 1) : ls[j] \notin RaisingHandlers
\* C38: in blocking mode an event whose i-th listener is the first to raise
\* invokes the listeners up to the i-th and none after it, and the
\* connection's stored error is the exception of the i-th.
C38_FirstFaultStops ==
    [][\A msg \in EventMsgs :
          LET ls == ListenersOf(_objects[msg.guid], msg.method)
          IN (/\ _is_sync
              /\ msg.guid \in DOMAIN _objects
              /\ \E i \in DOMAIN ls : ls[i] \in RaisingHandlers
              /\ dispatch_event(msg))
                 => LET i == FirstToRaise(ls)
                    IN /\ Len(invoked') = i
                       /\ \A j \in 1..i : invoked'[j].h = ls[j]
                       /\ \A j \in (i + 1)..Len(ls) :
                              \A k \in DOMAIN invoked' : invoked'[k].h # ls[j]
                       /\ _error' = ListenerError(ls[i])]_vars
\* two listeners in blocking mode, the first of which raises: it ran, the
\* second did not, and the stored error is the first one's
C38_Witness ==
    /\ _is_sync
    /\ EventToLive
    /\ Len(ListenersOf(_objects[lastMsg.guid], lastMsg.method)) = 2
    /\ ListenersOf(_objects[lastMsg.guid], lastMsg.method)[1] \in RaisingHandlers
    /\ Len(invoked) = 1
    /\ invoked[1].h = ListenersOf(_objects[lastMsg.guid], lastMsg.method)[1]
    /\ _error = ListenerError(invoked[1].h)

(* ------------------------------- C39 ----------------------------------- *)
\* a listener of the event just dispatched raised
Faulted ==
    /\ IsNote(lastMsg')
    /\ invoked' # <<>>
    /\ invoked'[Len(invoked')].h \in RaisingHandlers
    /\ <<lastMsg', invoked', _error', shadowed'>> # <<lastMsg, invoked, _error, shadowed>>
\* C39: the connection holds one error, the one of the latest listener fault:
\* a fault replaces the error stored before it, a call through Channel.send
\* raises the stored error, never one that was replaced, and clears it, and
\* a call issued with nothing stored raises nothing.
C39_LatestFaultOnly ==
    [][/\ (Faulted /\ ~IssuedBySend) =>
              _error' = ListenerError(invoked'[Len(invoked')].h)
       /\ IssuedBySend =>
              /\ calls'[Len(calls')].task =
                     IF _error = NoError THEN Awaiting ELSE Raised(_error)
              /\ (shadowed # NoError /\ shadowed # _error) =>
                     calls'[Len(calls')].task # Raised(shadowed)
              /\ _error' = NoError]_vars
\* two faults with no call between them: the first call raised the later
\* one, the second call raised nothing, no call raised the earlier one
C39_Witness ==
    /\ Len(calls) = 2
    /\ shadowed # NoError
    /\ calls[1].task.st = "raised" /\ calls[1].task.e # shadowed
    /\ calls[1].task.e.cls = "ListenerError"
    /\ calls[2].task = Awaiting
    /\ _error = NoError

(* ------------------------------- C40 ----------------------------------- *)
Made == route_handler.st = "made"
Limited == Made /\ route_handler.times # None /\ route_handler.times.n >= 1
\* C40: each handle() adds one to the counter; a handler made with times = N
\* >= 1 reads will_expire false while fewer than N - 1 invocations were
\* handled and true from N - 1 on; one made with times left out or 0 never
\* reads it true.
C40_ExpiresAtNth ==
    /\ [][(Made /\ route_handler'.task = Awaiting /\ route_handler.task # Awaiting) =>
              route_handler'._handled_count = route_handler._handled_count + 1]_vars
    /\ [][(Made /\ route_handler'._handled_count # route_handler._handled_count) =>
              route_handler'.task = Awaiting /\ route_handler.task # Awaiting]_vars
    /\ []((Made /\ route_handler.seen # <<>>) =>
              route_handler.seen[2] =
                  (Limited /\ route_handler.seen[1] >= route_handler.times.n - 1))
\* a handler made with times = 2 read will_expire false before its first
\* invocation and, after it, true
C40_Witness ==
    /\ Made
    /\ route_handler.times = Number(2)
    /\ route_handler._handled_count = 1
    /\ route_handler.seen = <<1, TRUE>>
====
